---- MODULE Spec2Model ----
(***************************************************************************)
(* Automatic parking system: fuzzy inference engine (fuzzy_centered.py),   *)
(* trajectory tracker and hybrid controller (hybrid_system.py).            *)
(*                                                                         *)
(* Numbers.  The program computes in floating point.  Here:                *)
(*   - a membership degree m in [0,1] is the integer m * MScale;           *)
(*   - a universe sample of a variable with resolution N is kept as the    *)
(*     exact numerator over N-1 (np.linspace divides the domain in N-1     *)
(*     steps), see UNum;                                                   *)
(*   - a crisp output (velocity, steering angle) is an integer number of   *)
(*     1/OScale units, rounded down.                                       *)
(* Divisions are \div (rounded down) on these scaled values.               *)
(***************************************************************************)
EXTENDS Integers, Sequences, FiniteSets, TLC

VARIABLES
    fvar,        \* SpecVar: the FuzzyVariable under configuration
    fvar_call,   \* SpecVar: arguments of the last add_term call
    fvar_exc,    \* SpecVar: exception raised by the last add_term call
    fis,         \* SpecFis: the FuzzyInferenceSystem
    infer_in,    \* SpecFis: input_values of the last infer call
    infer_loc,   \* SpecFis: locals of the last infer call (activation per rule, aggregated)
    infer_ret,   \* SpecFis: exception and return value of the last infer call
    rules_info,  \* SpecFis: return value of get_active_rules_info, when it was the last call
    hs,          \* Spec, SpecConc: the HybridParkingSystem
    last_op,     \* Spec, SpecConc: name of the last operation that ran
    ctl,         \* Spec, SpecConc: arguments, locals and return value of the last get_fuzzy_control
    opt_ret,     \* Spec, SpecConc: return value of the last optimization
    ticks,       \* Spec, SpecConc: number of get_fuzzy_control calls so far
    wpc,         \* SpecConc: position of the worker inside reoptimize_trajectory
    wres,        \* SpecConc: the worker's ga.run() result, not yet stored
    codec,       \* SpecEnc: arguments, locals and results of the last encode / decode round
    ga,          \* SpecGa: the optimizer object (GeneticAlgorithm or GeneticAlgorithmParking)
    ga_run,      \* SpecGa: position and locals of GeneticAlgorithm.run
    pk_run,      \* SpecGa: position and locals of GeneticAlgorithmParking.run
    ga_ret,      \* SpecGa: what the optimizer's run returned
    veh,         \* SpecSim: the Vehicle
    trk,         \* SpecSim: the TrajectoryTracker
    terr,        \* SpecSim: arguments and return value of the last calculate_tracking_error
    sel,         \* SpecSel: arguments, locals and return value of the last roulette selection
    dec,         \* SpecEnc: arguments, exception and return value of the last direct decode
    refp,        \* SpecTrack: arguments, locals and return value of the last get_reference_point
    sim          \* SpecPark: the ParkingSimulation (vehicle, bay, clock) and its last update

varsVar == <<fvar, fvar_call, fvar_exc>>
varsFis == <<fis, infer_in, infer_loc, infer_ret, rules_info>>
varsHyb == <<hs, last_op, ctl, opt_ret, ticks, wpc, wres>>
varsOpt == <<ga, ga_run, pk_run, ga_ret>>
varsSim == <<veh, trk, terr>>
varsAux == <<sel, dec, refp, sim>>
varsGa == <<codec, varsOpt, varsSim, varsAux>>
vars == <<varsVar, varsFis, varsHyb, varsGa>>

----------------------------------------------------------------------------
(* Scales and small helpers *)

MScale == 100

Min2(a, b) == IF a <= b THEN a ELSE b
Max2(a, b) == IF a >= b THEN a ELSE b
Abs(a) == IF a < 0 THEN -a ELSE a
Clip(v, lo, hi) == IF v < lo THEN lo ELSE IF v > hi THEN hi ELSE v

----------------------------------------------------------------------------
(* FuzzyVariable *)

\* FuzzyVariable.__init__: an empty term mapping over np.linspace(min, max, N)
FuzzyVariable(name, min_val, max_val, resolution) ==
    [name |-> name, min_val |-> min_val, max_val |-> max_val,
     resolution |-> resolution, terms |-> <<>>]

\* indices of the universe array
UIdx(v) == 0 .. (v.resolution - 1)

\* np.linspace(min, max, N)[i] = min + i*(max-min)/(N-1); kept as the exact
\* numerator over UDen(v)
UDen(v) == v.resolution - 1
UNum(v, i) == v.min_val * UDen(v) + i * (v.max_val - v.min_val)

\* universe[i] >= p and universe[i] <= q, compared exactly
InSeg(v, i, p, q) == UNum(v, i) >= p * UDen(v) /\ UNum(v, i) <= q * UDen(v)

\* the rising slope divided by the whole base c - a instead of b - a
TriangularMF_WrongBase(v, params) ==
    LET a == params[1]
        b == params[2]
        c == params[3]
        D == UDen(v)
        up(i) == IF InSeg(v, i, a, b) /\ b # a
                 THEN (MScale * (UNum(v, i) - a * D)) \div ((c - a) * D)
                 ELSE 0
        dn(i) == IF InSeg(v, i, b, c) /\ c # b
                 THEN (MScale * (c * D - UNum(v, i))) \div ((c - a) * D)
                 ELSE up(i)
    IN  [i \in UIdx(v) |-> Clip(dn(i), 0, MScale)]

\* FuzzyVariable._triangular_mf
TriangularMF(v, params) ==
    LET a == params[1]
        b == params[2]
        c == params[3]
        D == UDen(v)
        up(i) == IF InSeg(v, i, a, b) /\ b # a
                 THEN (MScale * (UNum(v, i) - a * D)) \div ((b - a) * D)
                 ELSE 0
        dn(i) == IF InSeg(v, i, b, c) /\ c # b
                 THEN (MScale * (c * D - UNum(v, i))) \div ((c - b) * D)
                 ELSE up(i)
    IN  [i \in UIdx(v) |-> Clip(dn(i), 0, MScale)]

\* FuzzyVariable._trapezoidal_mf
TrapezoidalMF(v, params) ==
    LET a == params[1]
        b == params[2]
        c == params[3]
        d == params[4]
        D == UDen(v)
        up(i) == IF InSeg(v, i, a, b) /\ b # a
                 THEN (MScale * (UNum(v, i) - a * D)) \div ((b - a) * D)
                 ELSE 0
        top(i) == IF InSeg(v, i, b, c) THEN MScale ELSE up(i)
        dn(i) == IF InSeg(v, i, c, d) /\ d # c
                 THEN (MScale * (d * D - UNum(v, i))) \div ((d - c) * D)
                 ELSE top(i)
    IN  [i \in UIdx(v) |-> Clip(dn(i), 0, MScale)]

\* FuzzyVariable.add_term: the exception it raises, "none" when it returns.
\* The gaussmf branch calls self._gaussian_mf, which the class does not
\* define: the attribute lookup raises AttributeError.
AddTermExc(mf_type) ==
    CASE mf_type = "trimf"   -> "none"
      [] mf_type = "trapmf"  -> "none"
      [] mf_type = "gaussmf" -> "AttributeError"
      [] OTHER               -> "ValueError"

\* FuzzyVariable.add_term: the variable after the call
AddTerm(v, term_name, mf_type, params) ==
    CASE mf_type = "trimf" ->
           [v EXCEPT !.terms = [t \in (DOMAIN v.terms) \cup {term_name} |->
                IF t = term_name THEN TriangularMF(v, params) ELSE v.terms[t]]]
      [] mf_type = "trapmf" ->
           [v EXCEPT !.terms = [t \in (DOMAIN v.terms) \cup {term_name} |->
                IF t = term_name THEN TrapezoidalMF(v, params) ELSE v.terms[t]]]
      [] OTHER -> v

\* FuzzyVariable.fuzzify, lines 67-70: clip, then
\* np.abs(self.universe - crisp_value).argmin(), the first sample with the
\* smallest distance.  The samples are evenly spaced, so the minimum is at
\* the sample just below the value or at the one just above it.
NearestIdx(v, crisp_value) ==
    LET cv == Clip(crisp_value, v.min_val, v.max_val)
        dist(i) == Abs(UNum(v, i) - cv * UDen(v))
        below == ((cv - v.min_val) * UDen(v)) \div (v.max_val - v.min_val)
        above == Min2(below + 1, v.resolution - 1)
    IN  IF dist(above) < dist(below) THEN above ELSE below

Fuzzify(v, crisp_value) ==
    LET idx == NearestIdx(v, crisp_value)
    IN  [t \in DOMAIN v.terms |-> v.terms[t][idx]]

----------------------------------------------------------------------------
(* FuzzyInferenceSystem *)

OScale == 10

\* FuzzyRule.__init__: antecedents and consequents map variable name -> term name
FuzzyRule(antecedents, consequents) ==
    [antecedents |-> antecedents, consequents |-> consequents]

SetMin(S) == CHOOSE m \in S : \A n \in S : m <= n
SetMax(S) == CHOOSE m \in S : \A n \in S : m >= n

\* FuzzyInferenceSystem.__init__, add_input, add_output, add_rule
FuzzyInferenceSystem(name) ==
    [name |-> name, inputs |-> <<>>, outputs |-> <<>>, rules |-> <<>>,
     last_input_memberships |-> <<>>]

AddInput(f, input_var) ==
    [f EXCEPT !.inputs = [n \in (DOMAIN f.inputs) \cup {input_var.name} |->
        IF n = input_var.name THEN input_var ELSE f.inputs[n]]]

AddOutput(f, output_var) ==
    [f EXCEPT !.outputs = [n \in (DOMAIN f.outputs) \cup {output_var.name} |->
        IF n = output_var.name THEN output_var ELSE f.outputs[n]]]

AddRule(f, rule) == [f EXCEPT !.rules = Append(f.rules, rule)]

\* infer, step 1: fuzzify every supplied input (self.inputs[input_name] raises
\* KeyError for a name that is no input variable, see InferExc)
FuzzifyInputs(f, input_values) ==
    [n \in DOMAIN input_values |-> Fuzzify(f.inputs[n], input_values[n])]

\* the antecedent clauses of a rule that infer finds in the fuzzified inputs
FoundClauses(rule, fuzzified) ==
    {av \in DOMAIN rule.antecedents :
        /\ av \in DOMAIN fuzzified
        /\ rule.antecedents[av] \in DOMAIN fuzzified[av]}

\* infer, lines 116-120: activation starts at 1.0 and is lowered by every
\* clause that is found; a clause that is not found is passed over
RuleActivation(rule, fuzzified) ==
    SetMin({MScale} \cup
           {fuzzified[av][rule.antecedents[av]] : av \in FoundClauses(rule, fuzzified)})

\* the activation of every rule, in rule order
Activations(f, fuzzified) ==
    [r \in 1 .. Len(f.rules) |-> RuleActivation(f.rules[r], fuzzified)]

\* infer, lines 110-129: per output, the maximum over the rules of
\* min(activation, consequent term), starting from zeros
Aggregate(f, activation) ==
    [o \in DOMAIN f.outputs |->
        LET applied == {q \in 1 .. Len(f.rules) :
                           /\ o \in DOMAIN f.rules[q].consequents
                           /\ f.rules[q].consequents[o] \in DOMAIN f.outputs[o].terms}
        IN  [i \in UIdx(f.outputs[o]) |->
                SetMax({0} \cup
                    {Min2(activation[r], f.outputs[o].terms[f.rules[r].consequents[o]][i]) :
                        r \in applied})]]

\* np.sum(universe * aggregated_mf), as a numerator over UDen(v), and
\* np.sum(aggregated_mf), over the samples lo .. hi
RECURSIVE SumNum(_, _, _, _)
SumNum(v, mf, lo, hi) ==
    IF lo > hi THEN 0
    ELSE IF lo = hi THEN UNum(v, lo) * mf[lo]
    ELSE SumNum(v, mf, lo, (lo + hi) \div 2) + SumNum(v, mf, (lo + hi) \div 2 + 1, hi)

RECURSIVE SumDen(_, _, _)
SumDen(mf, lo, hi) ==
    IF lo > hi THEN 0
    ELSE IF lo = hi THEN mf[lo]
    ELSE SumDen(mf, lo, (lo + hi) \div 2) + SumDen(mf, (lo + hi) \div 2 + 1, hi)

\* the fallback returns 0 instead of the midpoint
Defuzzify_ZeroFallback(v, mf) ==
    LET num == SumNum(v, mf, 0, v.resolution - 1)
        den == SumDen(mf, 0, v.resolution - 1)
    IN  IF den # 0
        THEN (OScale * num) \div (UDen(v) * den)
        ELSE 0

\* infer, lines 136-142: centroid, or the midpoint of the domain when the
\* aggregate sums to zero; in 1/OScale units
Defuzzify(v, mf) ==
    LET num == SumNum(v, mf, 0, v.resolution - 1)
        den == SumDen(mf, 0, v.resolution - 1)
    IN  IF den # 0
        THEN (OScale * num) \div (UDen(v) * den)
        ELSE (OScale * (v.min_val + v.max_val)) \div 2

\* infer: the exception it raises, "none" when it returns
InferExc(f, input_values) ==
    IF DOMAIN input_values \subseteq DOMAIN f.inputs THEN "none" ELSE "KeyError"

\* get_active_rules_info, lines 154-161: a clause that is not found ends the
\* loop with activation 0
InfoActivation(rule, memberships) ==
    IF FoundClauses(rule, memberships) = DOMAIN rule.antecedents
    THEN RuleActivation(rule, memberships)
    ELSE 0

\* lines 165-168: the rendered rule (its clauses, in place of the text) and
\* its activation
InfoEntry(rule, activation) ==
    [rule_str |-> [se |-> rule.antecedents, entao |-> rule.consequents],
     activation |-> activation]

\* lines 151-168: the entries of the rules with activation > 0, in rule order
RECURSIVE InfoEntries(_, _, _)
InfoEntries(rules, memberships, n) ==
    IF n = 0 THEN <<>>
    ELSE IF InfoActivation(rules[n], memberships) > 0
    THEN Append(InfoEntries(rules, memberships, n - 1),
                InfoEntry(rules[n], InfoActivation(rules[n], memberships)))
    ELSE InfoEntries(rules, memberships, n - 1)

\* the ascending variant of InsertDesc
InsertAsc(sorted, e) ==
    LET k == Cardinality({i \in 1 .. Len(sorted) : sorted[i].activation <= e.activation})
    IN  SubSeq(sorted, 1, k) \o <<e>> \o SubSeq(sorted, k + 1, Len(sorted))

\* e placed behind the entries of a list sorted by activation, descending,
\* that are not smaller than it
InsertDesc(sorted, e) ==
    LET k == Cardinality({i \in 1 .. Len(sorted) : sorted[i].activation >= e.activation})
    IN  SubSeq(sorted, 1, k) \o <<e>> \o SubSeq(sorted, k + 1, Len(sorted))

\* line 171: list.sort(key = activation, reverse = True), which is stable
RECURSIVE SortByActivation(_, _)
SortByActivation(entries, n) ==
    IF n = 0 THEN <<>>
    ELSE InsertDesc(SortByActivation(entries, n - 1), entries[n])

\* get_active_rules_info: return value (last_input_memberships is set in
\* __init__, so line 148 never returns)
ActiveRulesInfo(f) ==
    LET entries == InfoEntries(f.rules, f.last_input_memberships, Len(f.rules))
    IN  SortByActivation(entries, Len(entries))

\* infer: return value
InferOutputs(f, input_values) ==
    LET agg == Aggregate(f, Activations(f, FuzzifyInputs(f, input_values)))
    IN  [o \in DOMAIN f.outputs |-> Defuzzify(f.outputs[o], agg[o])]

\* infer that also forgets the rule base
InferState_DropsRules(f, input_values) ==
    [f EXCEPT !.rules = <<>>,
              !.last_input_memberships = FuzzifyInputs(f, input_values)]

\* infer: the engine after the call (line 107)
InferState(f, input_values) ==
    IF InferExc(f, input_values) = "none"
    THEN [f EXCEPT !.last_input_memberships = FuzzifyInputs(f, input_values)]
    ELSE f

----------------------------------------------------------------------------
(* create_centered_parking_system: the engine the hybrid controller is     *)
(* given in main_hybrid.py                                                 *)

\* add the terms of a list <<name, kind, params>> in order
RECURSIVE AddTerms(_, _)
AddTerms(v, terms) ==
    IF terms = <<>> THEN v
    ELSE AddTerms(AddTerm(v, terms[1][1], terms[1][2], terms[1][3]), Tail(terms))

RECURSIVE AddRules(_, _)
AddRules(f, rules) ==
    IF rules = <<>> THEN f ELSE AddRules(AddRule(f, rules[1]), Tail(rules))

ParkingInputs ==
    << AddTerms(FuzzyVariable("distancia_frontal", 0, 400, 400),
          << <<"muito_perto", "trapmf", <<0, 0, 5, 10>> >>,
             <<"perto", "trimf", <<8, 25, 50>> >>,
             <<"medio", "trimf", <<40, 100, 180>> >>,
             <<"longe", "trimf", <<150, 250, 350>> >>,
             <<"muito_longe", "trapmf", <<320, 380, 400, 400>> >> >>),
       AddTerms(FuzzyVariable("distancia_lateral", -80, 80, 160),
          << <<"muito_acima", "trapmf", <<-80, -80, -40, -20>> >>,
             <<"acima", "trimf", <<-30, -15, -5>> >>,
             <<"centrado", "trimf", <<-8, 0, 8>> >>,
             <<"abaixo", "trimf", <<5, 15, 30>> >>,
             <<"muito_abaixo", "trapmf", <<20, 40, 80, 80>> >> >>),
       AddTerms(FuzzyVariable("angulo_veiculo", -90, 90, 180),
          << <<"forte_esquerda", "trapmf", <<-90, -90, -60, -30>> >>,
             <<"esquerda", "trimf", <<-50, -25, -5>> >>,
             <<"alinhado", "trimf", <<-15, 0, 15>> >>,
             <<"direita", "trimf", <<5, 25, 50>> >>,
             <<"forte_direita", "trapmf", <<30, 60, 90, 90>> >> >>),
       AddTerms(FuzzyVariable("profundidade_vaga", 0, 150, 150),
          << <<"entrada", "trapmf", <<0, 0, 10, 30>> >>,
             <<"inicio", "trimf", <<20, 40, 58>> >>,
             <<"centro", "trimf", <<55, 70, 85>> >>,
             <<"fundo", "trimf", <<80, 105, 130>> >>,
             <<"final", "trapmf", <<125, 140, 150, 150>> >> >>) >>

ParkingOutputs ==
    << AddTerms(FuzzyVariable("angulo_direcao", -40, 40, 80),
          << <<"forte_esquerda", "trapmf", <<-40, -40, -30, -20>> >>,
             <<"esquerda", "trimf", <<-25, -15, -5>> >>,
             <<"reto", "trimf", <<-5, 0, 5>> >>,
             <<"direita", "trimf", <<5, 15, 25>> >>,
             <<"forte_direita", "trapmf", <<20, 30, 40, 40>> >> >>),
       AddTerms(FuzzyVariable("velocidade", 0, 100, 100),
          << <<"parado", "trapmf", <<0, 0, 1, 3>> >>,
             <<"muito_lento", "trimf", <<2, 5, 10>> >>,
             <<"lento", "trimf", <<8, 15, 25>> >>,
             <<"medio", "trimf", <<20, 35, 55>> >>,
             <<"rapido", "trapmf", <<50, 70, 100, 100>> >> >>) >>

ParkingRules ==
    << FuzzyRule([profundidade_vaga |-> "centro"],
                 [velocidade |-> "parado", angulo_direcao |-> "reto"]),
       FuzzyRule([profundidade_vaga |-> "inicio"],
                 [velocidade |-> "lento", angulo_direcao |-> "reto"]),
       FuzzyRule([profundidade_vaga |-> "entrada"],
                 [velocidade |-> "lento", angulo_direcao |-> "reto"]),
       FuzzyRule([profundidade_vaga |-> "fundo"],
                 [velocidade |-> "muito_lento", angulo_direcao |-> "reto"]),
       FuzzyRule([profundidade_vaga |-> "final"],
                 [velocidade |-> "parado", angulo_direcao |-> "reto"]),
       FuzzyRule([distancia_frontal |-> "muito_perto"],
                 [velocidade |-> "parado", angulo_direcao |-> "reto"]),
       FuzzyRule([distancia_frontal |-> "longe"],
                 [velocidade |-> "rapido", angulo_direcao |-> "reto"]),
       FuzzyRule([angulo_veiculo |-> "esquerda"],
                 [angulo_direcao |-> "direita", velocidade |-> "lento"]),
       FuzzyRule([angulo_veiculo |-> "direita"],
                 [angulo_direcao |-> "esquerda", velocidade |-> "lento"]),
       FuzzyRule([distancia_lateral |-> "muito_abaixo"],
                 [angulo_direcao |-> "esquerda", velocidade |-> "lento"]),
       FuzzyRule([distancia_lateral |-> "abaixo"],
                 [angulo_direcao |-> "esquerda", velocidade |-> "lento"]),
       FuzzyRule([distancia_lateral |-> "acima"],
                 [angulo_direcao |-> "direita", velocidade |-> "lento"]),
       FuzzyRule([distancia_lateral |-> "muito_acima"],
                 [angulo_direcao |-> "direita", velocidade |-> "lento"]) >>

create_centered_parking_system ==
    LET f0 == FuzzyInferenceSystem("Sistema Estacionamento com Parada Centralizada")
        f1 == AddInput(AddInput(AddInput(AddInput(f0,
                  ParkingInputs[1]), ParkingInputs[2]), ParkingInputs[3]), ParkingInputs[4])
        f2 == AddOutput(AddOutput(f1, ParkingOutputs[1]), ParkingOutputs[2])
    IN  AddRules(f2, ParkingRules)

----------------------------------------------------------------------------
(* SpecVar: one FuzzyVariable configured by add_term calls *)

UMax == 2

TermNames == {"baixo", "alto"}
MFKinds == {"trimf", "trapmf", "gaussmf", "sigmf"}
Pts == 0 .. UMax

\* parameter lists the callers pass: ordered break points (a pair for gaussmf)
ParamsOf(kind) ==
    CASE kind = "trimf" ->
           {p \in [1..3 -> Pts] : p[1] <= p[2] /\ p[2] <= p[3]}
      [] kind = "trapmf" ->
           {p \in [1..4 -> Pts] : p[1] <= p[2] /\ p[2] <= p[3] /\ p[3] <= p[4]}
      [] OTHER -> {<<1, 1>>}

NoCall == [term_name |-> "", mf_type |-> "", params |-> <<>>]

NoInfer == [exc |-> "nocall", outputs |-> <<>>]

\* the parts of the state a specification does not use stay as they are here
IdleVar == fvar = <<>> /\ fvar_call = NoCall /\ fvar_exc = "none"
NoInfo == [called |-> FALSE, ret |-> <<>>]
IdleFis ==
    /\ fis = <<>> /\ infer_in = <<>> /\ infer_loc = <<>> /\ infer_ret = NoInfer
    /\ rules_info = NoInfo
IdleOpt == ga = <<>> /\ ga_run = <<>> /\ pk_run = <<>> /\ ga_ret = <<>>

IdleSim == veh = <<>> /\ trk = <<>> /\ terr = <<>>

IdleAux == sel = <<>> /\ dec = <<>> /\ refp = <<>> /\ sim = <<>>

IdleGa == codec = <<>> /\ IdleOpt /\ IdleSim /\ IdleAux
IdleHyb ==
    /\ hs = <<>> /\ last_op = "" /\ ctl = <<>> /\ opt_ret = <<>>
    /\ ticks = 0 /\ wpc = "idle" /\ wres = <<>>

InitVar ==
    /\ fvar = FuzzyVariable("x", 0, UMax, UMax + 1)
    /\ fvar_call = NoCall
    /\ fvar_exc = "none"
    /\ IdleFis
    /\ IdleHyb
    /\ IdleGa

add_term(term_name, mf_type, params) ==
    /\ fvar_call' = [term_name |-> term_name, mf_type |-> mf_type, params |-> params]
    /\ fvar_exc' = AddTermExc(mf_type)
    /\ fvar' = AddTerm(fvar, term_name, mf_type, params)
    /\ UNCHANGED <<varsFis, varsHyb, varsGa>>

NextVar ==
    \E term_name \in TermNames, mf_type \in MFKinds :
        \E params \in ParamsOf(mf_type) : add_term(term_name, mf_type, params)

SpecVar == InitVar /\ [][NextVar]_vars

\* index of the universe sample whose value is p
SampleAt(v, p) == CHOOSE i \in UIdx(v) : UNum(v, i) = p * UDen(v)

\* the last call was a successful add_term(name, "trimf", [a, b, c])
LastTrimf == fvar_call.mf_type = "trimf" /\ fvar_exc = "none"
LastMF == fvar.terms[fvar_call.term_name]
LastA == fvar_call.params[1]
LastB == fvar_call.params[2]
LastC == fvar_call.params[3]

\* the membership array mf does not decrease from sample p to sample q >= p
NonDecreasing(v, mf, p, q) ==
    \A i \in UIdx(v), j \in UIdx(v) :
        (InSeg(v, i, p, q) /\ InSeg(v, j, p, q) /\ i <= j) => mf[i] <= mf[j]
NonIncreasing(v, mf, p, q) ==
    \A i \in UIdx(v), j \in UIdx(v) :
        (InSeg(v, i, p, q) /\ InSeg(v, j, p, q) /\ i <= j) => mf[i] >= mf[j]

\* C9 as stated: for every triangular term with a <= b <= c (degenerate
\* cases included) the membership at b is exactly 1, at a and at c exactly 0,
\* non-decreasing on [a,b] and non-increasing on [b,c].
C9_TrimfAsStated ==
    LastTrimf =>
        /\ LastMF[SampleAt(fvar, LastB)] = MScale
        /\ LastMF[SampleAt(fvar, LastA)] = 0
        /\ LastMF[SampleAt(fvar, LastC)] = 0
        /\ NonDecreasing(fvar, LastMF, LastA, LastB)
        /\ NonIncreasing(fvar, LastMF, LastB, LastC)

\* C9 amended: for every triangular term with a <= b <= c over a universe
\* that samples a, b and c: when a < c the membership at b is exactly 1, the
\* membership at a is exactly 0 when a < b and the membership at c is exactly
\* 0 when b < c (an end point equal to b has membership 1); when a = b = c
\* the membership is 0 at every sample; the membership is non-decreasing on
\* [a,b] and non-increasing on [b,c]; every value lies in [0,1].
C9_Trimf ==
    LastTrimf =>
        /\ LastA < LastC => LastMF[SampleAt(fvar, LastB)] = MScale
        /\ LastA < LastB => LastMF[SampleAt(fvar, LastA)] = 0
        /\ LastB < LastC => LastMF[SampleAt(fvar, LastC)] = 0
        /\ (LastA = LastB /\ LastB = LastC) => \A i \in UIdx(fvar) : LastMF[i] = 0
        /\ NonDecreasing(fvar, LastMF, LastA, LastB)
        /\ NonIncreasing(fvar, LastMF, LastB, LastC)
        /\ \A i \in UIdx(fvar) : LastMF[i] \in 0 .. MScale

\* a degenerate triangle (a = b < c) has been added, and so has a proper one
C9_Witness ==
    /\ LastTrimf
    /\ LastA = LastB /\ LastB < LastC
    /\ LastMF[SampleAt(fvar, LastB)] = MScale
    /\ \E t \in DOMAIN fvar.terms : \E i \in UIdx(fvar) : fvar.terms[t][i] \in 1 .. (MScale - 1)

AcceptedKinds == {"trimf", "trapmf", "gaussmf"}

\* C10: add_term accepts exactly trimf, trapmf and gaussmf and adds the named
\* term for each; any other kind fails with a configuration error
\* (ValueError) and leaves the term mapping unchanged.
C10_AddTermKinds ==
    [][ /\ fvar_call'.mf_type \in AcceptedKinds =>
             /\ fvar_exc' = "none"
             /\ fvar_call'.term_name \in DOMAIN fvar'.terms
        /\ fvar_call'.mf_type \notin AcceptedKinds =>
             /\ fvar_exc' = "ValueError"
             /\ fvar'.terms = fvar.terms ]_varsVar

----------------------------------------------------------------------------
(* SpecFis: a small engine (inputs x and v, outputs y and w), rules added  *)
(* by add_rule, infer called with any subset of the inputs                 *)

MaxRules == 2

\* shapes of y's term: a degenerate triangle (zero at every sample) and a
\* proper one
YShapes == {<<0, 0, 0>>, <<0, UMax, UMax>>}

\* the engine as configured before the first rule
SmallFis(yparams) ==
    LET x == AddTerm(AddTerm(FuzzyVariable("x", 0, UMax, UMax + 1),
                        "baixo", "trimf", <<0, 0, UMax>>),
                        "alto", "trimf", <<0, UMax, UMax>>)
        v == AddTerm(FuzzyVariable("v", 0, UMax, UMax + 1),
                        "alto", "trapmf", <<0, 1, UMax, UMax>>)
        y == AddTerm(FuzzyVariable("y", 0, UMax, UMax + 1),
                        "alto", "trimf", yparams)
        w == AddTerm(FuzzyVariable("w", -1, 2, 4),
                        "baixo", "trapmf", <<-1, -1, 0, 2>>)
    IN  AddOutput(AddOutput(AddInput(AddInput(
            FuzzyInferenceSystem("small"), x), v), y), w)

\* rules the caller may add: z is no input variable, medio is no term of x,
\* v is an input variable that a call may leave out
CandidateRules ==
    { FuzzyRule([x |-> "baixo"], [y |-> "alto"]),
      FuzzyRule([x |-> "alto"], [y |-> "alto", w |-> "baixo"]),
      FuzzyRule([z |-> "baixo"], [w |-> "baixo"]),
      FuzzyRule([x |-> "medio"], [y |-> "alto"]),
      FuzzyRule([x |-> "baixo", v |-> "alto"], [w |-> "baixo"]),
      FuzzyRule([v |-> "alto"], [y |-> "alto"]) }

\* input_values of a call: x alone, x and v, nothing, or a name that is no
\* input variable
InputChoices ==
    {[x |-> a] : a \in Pts} \cup {[x |-> a, v |-> b] : a \in Pts, b \in {0, UMax}}
        \cup {<<>>} \cup {[z |-> 0]}

InitFis ==
    /\ \E yparams \in YShapes : fis = SmallFis(yparams)
    /\ infer_in = <<>>
    /\ infer_loc = <<>>
    /\ infer_ret = NoInfer
    /\ rules_info = NoInfo
    /\ IdleVar
    /\ IdleHyb
    /\ IdleGa

add_rule(rule) ==
    /\ Len(fis.rules) < MaxRules
    /\ fis' = AddRule(fis, rule)
    /\ rules_info' = NoInfo
    /\ UNCHANGED <<infer_in, infer_loc, infer_ret, varsVar, varsHyb, varsGa>>

infer(input_values) ==
    /\ infer_in' = input_values
    /\ IF InferExc(fis, input_values) = "none"
       THEN \E fuzzified \in {FuzzifyInputs(fis, input_values)} :
            \E activation \in {Activations(fis, fuzzified)} :
            \E aggregated \in {Aggregate(fis, activation)} :
                /\ fis' = [fis EXCEPT !.last_input_memberships = fuzzified]
                /\ infer_loc' = [rules |-> fis.rules, activation |-> activation,
                                 aggregated |-> aggregated]
                /\ infer_ret' = [exc |-> "none",
                                 outputs |-> [o \in DOMAIN fis.outputs |->
                                     Defuzzify(fis.outputs[o], aggregated[o])]]
       ELSE /\ fis' = fis
            /\ infer_loc' = <<>>
            /\ infer_ret' = [exc |-> InferExc(fis, input_values), outputs |-> <<>>]
    /\ rules_info' = NoInfo
    /\ UNCHANGED <<varsVar, varsHyb, varsGa>>

get_active_rules_info ==
    /\ rules_info' = [called |-> TRUE, ret |-> ActiveRulesInfo(fis)]
    /\ UNCHANGED <<fis, infer_in, infer_loc, infer_ret, varsVar, varsHyb, varsGa>>

NextFis ==
    \/ \E rule \in CandidateRules : add_rule(rule)
    \/ \E input_values \in InputChoices : infer(input_values)
    \/ get_active_rules_info

SpecFis == InitFis /\ [][NextFis]_vars

\* a clause of the rule names an input variable that the call did not supply,
\* or a term that the variable does not define
HasUnknownClause(rule) ==
    \E av \in DOMAIN rule.antecedents :
        \/ av \notin DOMAIN infer_in
        \/ rule.antecedents[av] \notin DOMAIN fis.inputs[av].terms

\* C7: in infer, a rule with a clause naming an unsupplied input variable or
\* an undefined term gets activation 0 (and so adds nothing to any output
\* aggregate), and infer does not raise because of it.
C7_UnknownClauseZero ==
    infer_ret.exc = "none" =>
        \A r \in 1 .. Len(infer_loc.rules) :
            HasUnknownClause(infer_loc.rules[r]) => infer_loc.activation[r] = 0

\* C8: for every output whose aggregate is zero at every sample after all
\* rules are evaluated, infer returns (min + max) / 2 of the output's domain;
\* otherwise it returns the centroid sum(u_i * agg_i) / sum(agg_i) (here
\* rounded down to 1/OScale).
C8_Defuzzify ==
    infer_ret.exc = "none" =>
        \A o \in DOMAIN fis.outputs :
            LET ov == fis.outputs[o]
                agg == infer_loc.aggregated[o]
                num == SumNum(ov, agg, 0, ov.resolution - 1)
                den == SumDen(agg, 0, ov.resolution - 1)
                out == infer_ret.outputs[o]
            IN  IF \A i \in UIdx(ov) : agg[i] = 0
                THEN 2 * out = OScale * (ov.min_val + ov.max_val)
                ELSE /\ out * UDen(ov) * den <= OScale * num
                     /\ OScale * num < (out + 1) * UDen(ov) * den

\* one call in which a rule fired for w (centroid) and y's aggregate stayed
\* zero (midpoint), although a rule with consequent y was evaluated
C8_Witness ==
    /\ infer_ret.exc = "none"
    /\ \A i \in UIdx(fis.outputs["y"]) : infer_loc.aggregated["y"][i] = 0
    /\ \E i \in UIdx(fis.outputs["w"]) : infer_loc.aggregated["w"][i] > 0
    /\ \E r \in 1 .. Len(infer_loc.rules) : "y" \in DOMAIN infer_loc.rules[r].consequents
    /\ infer_ret.outputs["y"] # infer_ret.outputs["w"]


\* C11: get_active_rules_info returns exactly the rules whose activation,
\* recomputed from the memberships of the last fuzzification, is > 0, each
\* with that activation, ordered by activation descending, rules of equal
\* activation in their rule-list order.
C11_ActiveRules ==
    rules_info.called =>
        LET act(i) == InfoActivation(fis.rules[i], fis.last_input_memberships)
            Active == {i \in 1 .. Len(fis.rules) : act(i) > 0}
            ret == rules_info.ret
        IN  /\ Len(ret) = Cardinality(Active)
            /\ \E pos \in [1 .. Len(ret) -> Active] :
                /\ \A k, l \in 1 .. Len(ret) :
                       k < l => \/ act(pos[k]) > act(pos[l])
                                \/ act(pos[k]) = act(pos[l]) /\ pos[k] < pos[l]
                /\ \A k \in 1 .. Len(ret) :
                       ret[k] = InfoEntry(fis.rules[pos[k]], act(pos[k]))

\* two rules are active and the second of the rule list, with the larger
\* activation, is returned first
C11_Witness ==
    /\ rules_info.called
    /\ Len(fis.rules) = 2
    /\ Len(rules_info.ret) = 2
    /\ rules_info.ret[1].activation > rules_info.ret[2].activation
    /\ rules_info.ret[1].rule_str.se = fis.rules[2].antecedents
    /\ fis.rules[1].antecedents # fis.rules[2].antecedents

\* get_active_rules_info was called after an infer call that returned, with
\* no rule added in between
InfoAfterInfer == rules_info.called /\ infer_loc # <<>> /\ infer_loc.rules = fis.rules

\* rule i is reported with the activation infer gave it
ReportedAsInferred(i) ==
    \E k \in 1 .. Len(rules_info.ret) :
        rules_info.ret[k] = InfoEntry(fis.rules[i], infer_loc.activation[i])

\* C27: after any infer call, the rules reported by get_active_rules_info
\* are exactly the rules infer applied with activation > 0, each with the
\* activation infer used, also for rules with a clause naming an unsupplied
\* variable or an undefined term
C27_InfoMatchesInfer ==
    InfoAfterInfer =>
        /\ \A i \in 1 .. Len(fis.rules) :
              infer_loc.activation[i] > 0 <=> ReportedAsInferred(i)
        /\ \A k \in 1 .. Len(rules_info.ret) :
              \E i \in 1 .. Len(fis.rules) :
                  /\ infer_loc.activation[i] > 0
                  /\ rules_info.ret[k] = InfoEntry(fis.rules[i], infer_loc.activation[i])

\* the part of C27 that holds: the rules all of whose clauses are found
C27_KnownClauses ==
    InfoAfterInfer =>
        \A i \in 1 .. Len(fis.rules) :
            ~HasUnknownClause(fis.rules[i]) =>
                (infer_loc.activation[i] > 0 <=> ReportedAsInferred(i))

----------------------------------------------------------------------------
(* Geometry.  Positions are whole pixels; angles (degrees) and velocities  *)
(* are integers in 1/OScale units.                                         *)

Deg(n) == n * OScale

\* math.sqrt, rounded down: the largest r in lo .. hi with r * r <= n
RECURSIVE SqrtBetween(_, _, _)
SqrtBetween(n, lo, hi) ==
    IF lo = hi THEN lo
    ELSE IF ((lo + hi + 1) \div 2) * ((lo + hi + 1) \div 2) <= n
         THEN SqrtBetween(n, (lo + hi + 1) \div 2, hi)
         ELSE SqrtBetween(n, lo, (lo + hi + 1) \div 2 - 1)

\* math.sqrt(dx*dx + dy*dy), in 1/OScale
Dist(dx, dy) == SqrtBetween(OScale * OScale * (dx * dx + dy * dy), 0, 46340)

\* degrees(atan(n / d)) for 0 <= n <= d, d > 0, in 1/OScale: the quadratic
\* approximation 45 r + 15.7 r (1 - r) of the arc tangent (within 0.3 degree)
AtanOctant(n, d) ==
    LET q == (100 * n) \div d
    IN  (OScale * (45000 * q + 157 * q * (100 - q))) \div 100000

\* math.degrees(math.atan2(dy, dx)), in 1/OScale
Atan2Deg(dy, dx) ==
    LET ax == Abs(dx)
        ay == Abs(dy)
        a == IF ax = 0 /\ ay = 0 THEN 0
             ELSE IF ay <= ax THEN AtanOctant(ay, ax)
             ELSE Deg(90) - AtanOctant(ax, ay)
    IN  IF dx >= 0 THEN (IF dy >= 0 THEN a ELSE -a)
        ELSE (IF dy >= 0 THEN Deg(180) - a ELSE a - Deg(180))

\* while e > 180: e -= 360, then while e < -180: e += 360
RECURSIVE WrapDown(_)
WrapDown(e) == IF e > Deg(180) THEN WrapDown(e - Deg(360)) ELSE e

RECURSIVE WrapUp(_)
WrapUp(e) == IF e < -Deg(180) THEN WrapUp(e + Deg(360)) ELSE e

WrapAngle(e) == WrapUp(WrapDown(e))

----------------------------------------------------------------------------
(* GeneticAlgorithm, as the hybrid controller sees it: run() returns the   *)
(* decoded best individual and its trajectory.  The search is random; the  *)
(* results modelled are the straight curves k0 = k1 = 0 of either          *)
(* direction, sampled at NumPoints points.                                 *)

NumPoints == 4

\* _generate_trajectory with k0 = k1 = 0: both control points lie on the end
\* points, so the Bezier point at s is p0 + (pf - p0) (3 s^2 - 2 s^3); the
\* heading is theta0 at s = 0, the bearing of the chord inside, and
\* atan2(0, 0) = 0 at s = 1; vs = -1 turns every heading by 180 degrees
GenerateTrajectory(initial_pose, final_pose, vs) ==
    LET n == NumPoints - 1
        w(i) == 3 * i * i * n - 2 * i * i * i
        x(i) == initial_pose[1] + ((final_pose[1] - initial_pose[1]) * w(i)) \div (n * n * n)
        y(i) == initial_pose[2] + ((final_pose[2] - initial_pose[2]) * w(i)) \div (n * n * n)
        theta(i) == IF i = 0 THEN initial_pose[3]
                    ELSE IF i = n THEN 0
                    ELSE Atan2Deg(final_pose[2] - initial_pose[2],
                                  final_pose[1] - initial_pose[1])
        turned(t) == IF vs = -1
                     THEN (IF t + Deg(180) > Deg(180) THEN t - Deg(180) ELSE t + Deg(180))
                     ELSE t
    IN  [i \in 1 .. NumPoints |-> <<x(i - 1), y(i - 1), turned(theta(i - 1))>>]

\* GeneticAlgorithm.run: the result dictionaries it may return
GaRun(initial_pose, final_pose) ==
    {[k0 |-> 0, k1 |-> 0, vs |-> vs,
      trajectory |-> GenerateTrajectory(initial_pose, final_pose, vs)] : vs \in {1, -1}}

----------------------------------------------------------------------------
(* TrajectoryTracker *)

\* TrajectoryTracker.__init__
TrajectoryTracker(trajectory) ==
    [trajectory |-> trajectory, current_index |-> 0, lookahead_distance |-> 60,
     progress |-> 0, last_velocity |-> 0, last_steering |-> 0]

\* the index of the window with the largest distance
ClosestIdx_Farthest(tr, vehicle_x, vehicle_y) ==
    LET window == Max2(0, tr.progress - 10) .. (Min2(Len(tr.trajectory), tr.progress + 50) - 1)
        d2(i) == (tr.trajectory[i + 1][1] - vehicle_x) * (tr.trajectory[i + 1][1] - vehicle_x)
               + (tr.trajectory[i + 1][2] - vehicle_y) * (tr.trajectory[i + 1][2] - vehicle_y)
    IN  IF window = {} THEN tr.progress
        ELSE CHOOSE i \in window :
                /\ \A j \in window : d2(i) >= d2(j)
                /\ \A j \in window : d2(j) = d2(i) => i <= j

\* get_reference_point, lines 22-31: the first index of the window
\* max(0, progress-10) .. min(len, progress+50)-1 with the smallest distance
ClosestIdx(tr, vehicle_x, vehicle_y) ==
    LET search_start == Max2(0, tr.progress - 10)
        search_end == Min2(Len(tr.trajectory), tr.progress + 50)
        d2(i) == (tr.trajectory[i + 1][1] - vehicle_x) * (tr.trajectory[i + 1][1] - vehicle_x)
               + (tr.trajectory[i + 1][2] - vehicle_y) * (tr.trajectory[i + 1][2] - vehicle_y)
        window == search_start .. (search_end - 1)
    IN  IF window = {} THEN tr.progress
        ELSE CHOOSE i \in window :
                /\ \A j \in window : d2(i) <= d2(j)
                /\ \A j \in window : d2(j) = d2(i) => i <= j

\* the pose at the closest index, without look-ahead
ReferenceFrom_NoLookahead(tr, closest_idx) ==
    [tracker |-> [tr EXCEPT !.progress = closest_idx, !.current_index = closest_idx],
     ref |-> tr.trajectory[closest_idx + 1]]

\* get_reference_point, lines 32-37, for the closest index found
ReferenceFrom(tr, closest_idx) ==
    LET lookahead_idx == Min2(closest_idx + Max2(5, tr.lookahead_distance \div 4),
                              Len(tr.trajectory) - 1)
    IN  [tracker |-> [tr EXCEPT !.progress = closest_idx,
                                !.current_index = lookahead_idx],
         ref |-> tr.trajectory[lookahead_idx + 1]]

\* get_reference_point: the tracker after the call and the pose returned
GetReferencePoint(tr, vehicle_x, vehicle_y) ==
    IF tr.trajectory = <<>>
    THEN [tracker |-> tr, ref |-> <<vehicle_x, vehicle_y, 0>>]
    ELSE ReferenceFrom(tr, ClosestIdx(tr, vehicle_x, vehicle_y))

\* calculate_tracking_error, lines 43-55, for the reference g
TrackingErrorFrom(g, vehicle_x, vehicle_y, vehicle_angle) ==
    [tracker |-> g.tracker,
     position_error |-> Dist(g.ref[1] - vehicle_x, g.ref[2] - vehicle_y),
     angle_error |-> WrapAngle(g.ref[3] - vehicle_angle),
     reference_x |-> g.ref[1],
     reference_y |-> g.ref[2],
     reference_angle |-> g.ref[3]]

\* calculate_tracking_error
CalculateTrackingError(tr, vehicle_x, vehicle_y, vehicle_angle) ==
    TrackingErrorFrom(GetReferencePoint(tr, vehicle_x, vehicle_y),
                      vehicle_x, vehicle_y, vehicle_angle)

----------------------------------------------------------------------------
(* HybridParkingSystem *)

NoneVal == [none |-> TRUE]

\* HybridParkingSystem.__init__ (parking_spot, obstacles and vehicle_params
\* are only handed on to the optimizer)
HybridParkingSystem(fuzzy_system, initial_pose, final_pose) ==
    [fuzzy_system |-> fuzzy_system, initial_pose |-> initial_pose,
     final_pose |-> final_pose, ga_result |-> NoneVal,
     trajectory_tracker |-> NoneVal, ga_optimized |-> FALSE]

\* v scaled by tenths / 10
Scaled(v, tenths) == (v * tenths) \div 10

\* lines 157-162: base_velocity *= 0.4, 0.7 or 0.9 by the heading error
AngleFactor(angle_error_abs) ==
    IF angle_error_abs > Deg(45) THEN 4
    ELSE IF angle_error_abs > Deg(25) THEN 7
    ELSE IF angle_error_abs > Deg(10) THEN 9
    ELSE 10

\* lines 163-164: base_velocity *= 0.6 close to the reference point
NearFactor(dist_to_ref) == IF dist_to_ref < Deg(15) THEN 6 ELSE 10

\* lines 181-184: base_velocity *= 0.3 or 0.6 by the forward sensor
SensorFactor(sensor_front) ==
    IF sensor_front < 25 THEN 3 ELSE IF sensor_front < 40 THEN 6 ELSE 10

\* lines 155-164
BaseVelocity(dist_to_ref, angle_error) ==
    Scaled(Scaled(Min2(Deg(25), Max2(Deg(8), dist_to_ref \div 2)),
                  AngleFactor(Abs(angle_error))),
           NearFactor(dist_to_ref))

\* lines 173-175
Signed(vs, base_velocity) == IF vs = -1 THEN -Abs(base_velocity) ELSE base_velocity

\* lines 176-177
FilteredVelocity(last_velocity, base_velocity) ==
    (6 * last_velocity + 4 * base_velocity) \div 10

\* lines 147-154
DirectionError(dx, dy, reference_angle, vehicle_angle) ==
    WrapAngle((IF dx * dx + dy * dy > 0 THEN Atan2Deg(dy, dx) ELSE reference_angle)
              - vehicle_angle)

\* lines 165-171 without np.clip
FilteredSteering_NoClip(last_steering, direction_error, angle_error) ==
    (7 * last_steering + 3 * ((direction_error * 5 + angle_error * 3) \div 10)) \div 10

\* lines 165-171
FilteredSteering(last_steering, direction_error, angle_error) ==
    (7 * last_steering
     + 3 * Clip((direction_error * 5 + angle_error * 3) \div 10, -Deg(40), Deg(40)))
    \div 10

\* lines 172, 178 and 185-186
TrackingResult(tracker, steering_angle, base_velocity, sensor_front) ==
    [tracker |-> [tracker EXCEPT !.last_steering = steering_angle,
                                 !.last_velocity = base_velocity],
     control |-> [velocidade |-> Scaled(base_velocity, SensorFactor(sensor_front)),
                  angulo_direcao |-> steering_angle]]

\* _calculate_tracking_control, lines 140-186, for the tracking error te
TrackingControlFrom(te, vs, vehicle) ==
    TrackingResult(
        te.tracker,
        FilteredSteering(te.tracker.last_steering,
                         DirectionError(te.reference_x - vehicle.x,
                                        te.reference_y - vehicle.y,
                                        te.reference_angle, vehicle.angle),
                         te.angle_error),
        FilteredVelocity(te.tracker.last_velocity,
                         Signed(vs, BaseVelocity(Dist(te.reference_x - vehicle.x,
                                                      te.reference_y - vehicle.y),
                                                 te.angle_error))),
        vehicle.sensor_front)

\* _calculate_tracking_control: the tracker after the call and the command
CalculateTrackingControl(tr, vs, vehicle) ==
    TrackingControlFrom(CalculateTrackingError(tr, vehicle.x, vehicle.y, vehicle.angle),
                        vs, vehicle)

\* get_fuzzy_control, lines 190-195 and 200-205
FuzzyInputs(vehicle) ==
    [distancia_frontal |-> vehicle.sensor_front,
     distancia_lateral |-> vehicle.sensor_lateral,
     angulo_veiculo |-> vehicle.sensor_angle,
     profundidade_vaga |-> vehicle.sensor_depth]

\* line 189 without the use_tracking test
FuzzyOnly_IgnoresFlag(h, use_tracking) == ~h.ga_optimized

\* get_fuzzy_control, line 189: the branch that returns the fuzzy outputs
FuzzyOnly(h, use_tracking) == (~h.ga_optimized) \/ (~use_tracking)

\* weights are hundredths: a blended command is in 1/(OScale * BScale)
BScale == 100

\* lines 207-219 with the band tests written <= 15 and <= 30
Blend_BoundaryBelow(sensor_front, fuzzy_outputs, tracking_control) ==
    IF sensor_front <= 15
    THEN [velocidade |-> fuzzy_outputs.velocidade * 70 + tracking_control.velocidade * 30,
          angulo_direcao |-> fuzzy_outputs.angulo_direcao * 70
                             + tracking_control.angulo_direcao * 30]
    ELSE IF sensor_front <= 30
    THEN [velocidade |-> tracking_control.velocidade * 75 + fuzzy_outputs.velocidade * 25,
          angulo_direcao |-> tracking_control.angulo_direcao * 80
                             + fuzzy_outputs.angulo_direcao * 20]
    ELSE [velocidade |-> tracking_control.velocidade * 95 + fuzzy_outputs.velocidade * 5,
          angulo_direcao |-> tracking_control.angulo_direcao * 90
                             + fuzzy_outputs.angulo_direcao * 10]

\* lines 207-219 with the steering of the far band weighted like its velocity
Blend_OneFarWeight(sensor_front, fuzzy_outputs, tracking_control) ==
    IF sensor_front < 15
    THEN [velocidade |-> fuzzy_outputs.velocidade * 70 + tracking_control.velocidade * 30,
          angulo_direcao |-> fuzzy_outputs.angulo_direcao * 70
                             + tracking_control.angulo_direcao * 30]
    ELSE IF sensor_front < 30
    THEN [velocidade |-> tracking_control.velocidade * 75 + fuzzy_outputs.velocidade * 25,
          angulo_direcao |-> tracking_control.angulo_direcao * 80
                             + fuzzy_outputs.angulo_direcao * 20]
    ELSE [velocidade |-> tracking_control.velocidade * 95 + fuzzy_outputs.velocidade * 5,
          angulo_direcao |-> tracking_control.angulo_direcao * 95
                             + fuzzy_outputs.angulo_direcao * 5]

\* get_fuzzy_control, lines 207-219
Blend(sensor_front, fuzzy_outputs, tracking_control) ==
    IF sensor_front < 15
    THEN [velocidade |-> fuzzy_outputs.velocidade * 70 + tracking_control.velocidade * 30,
          angulo_direcao |-> fuzzy_outputs.angulo_direcao * 70
                             + tracking_control.angulo_direcao * 30]
    ELSE IF sensor_front < 30
    THEN [velocidade |-> tracking_control.velocidade * 75 + fuzzy_outputs.velocidade * 25,
          angulo_direcao |-> tracking_control.angulo_direcao * 80
                             + fuzzy_outputs.angulo_direcao * 20]
    ELSE [velocidade |-> tracking_control.velocidade * 95 + fuzzy_outputs.velocidade * 5,
          angulo_direcao |-> tracking_control.angulo_direcao * 90
                             + fuzzy_outputs.angulo_direcao * 10]

\* get_fuzzy_control, lines 196-197: the fuzzy outputs returned as they are
Unblended(fuzzy_outputs) ==
    [velocidade |-> fuzzy_outputs.velocidade * BScale,
     angulo_direcao |-> fuzzy_outputs.angulo_direcao * BScale]

\* lines 96-98 and 125-127 updating the tracker that exists in place
StoreResult_KeepsTracker(h, result) ==
    [h EXCEPT !.ga_result = result,
              !.trajectory_tracker =
                  IF h.ga_optimized
                  THEN [h.trajectory_tracker EXCEPT !.trajectory = result.trajectory]
                  ELSE TrajectoryTracker(result.trajectory),
              !.ga_optimized = TRUE]

\* optimize_trajectory lines 96-98, reoptimize_trajectory lines 125-127
StoreResult(h, result) ==
    [h EXCEPT !.ga_result = result,
              !.trajectory_tracker = TrajectoryTracker(result.trajectory),
              !.ga_optimized = TRUE]

----------------------------------------------------------------------------
(* Spec: the controller driven from one thread (optimize, re-optimize and  *)
(* control ticks, each call running to completion)                         *)

\* Vehicle, with the sensors as update_sensors sets them for the parking spot
\* (600, 250, 150 x 80) and a vehicle of length 50; cos is 1 at 0 degrees and
\* 0 at -90
VehicleAt(x, y, angle) ==
    LET front_x == x + (IF angle = 0 THEN 25 ELSE 0)
    IN  [x |-> x, y |-> y, angle |-> angle,
         sensor_front |-> Abs(600 - front_x),
         sensor_lateral |-> y - (250 + 80 \div 2),
         sensor_angle |-> angle,
         sensor_depth |-> IF x >= 600 THEN Min2(x - 600, 150) ELSE 0]

Vehicles ==
    { VehicleAt(565, 290, 0), VehicleAt(560, 290, 0), VehicleAt(546, 300, 0),
      VehicleAt(545, 300, 0), VehicleAt(525, 350, 0), VehicleAt(250, 350, -Deg(90)),
      VehicleAt(675, 290, 0) }

\* main_hybrid.py: the poses the controller is built with, and the poses a
\* re-optimization starts from
InitialPose == <<250, 350, -Deg(15)>>
FinalPose == <<675, 290, 0>>
NewPoses == {<<545, 300, 0>>, <<400, 330, -Deg(10)>>}

\* the engine's inputs, outputs and rules are assigned once, in
\* create_centered_parking_system, and infer does not read
\* last_input_memberships (EngineFixed below), so what infer computes for
\* each vehicle is evaluated once and looked up by the control tick
ParkingInference ==
    [vehicle \in Vehicles |->
        [outputs |-> InferOutputs(create_centered_parking_system, FuzzyInputs(vehicle)),
         state |-> InferState(create_centered_parking_system, FuzzyInputs(vehicle))]]

\* number of control ticks in a behaviour
MaxTicks == 2

NoCtl == [vehicle |-> <<>>, use_tracking |-> FALSE, ga_optimized |-> FALSE,
          tracked |-> FALSE,
          result |-> NoneVal, path |-> NoneVal,
          fuzzy_outputs |-> <<>>, tracking_control |-> <<>>, ret |-> <<>>]

InitHyb ==
    /\ hs = HybridParkingSystem(create_centered_parking_system, InitialPose, FinalPose)
    /\ last_op = "init"
    /\ ctl = NoCtl
    /\ opt_ret = NoneVal
    /\ ticks = 0
    /\ wpc = "idle"
    /\ wres = NoneVal

Init == InitHyb /\ IdleVar /\ IdleFis /\ IdleGa

optimize_trajectory ==
    /\ wpc = "idle"
    /\ \E result \in GaRun(hs.initial_pose, hs.final_pose) :
        /\ hs' = StoreResult(hs, result)
        /\ opt_ret' = result
    /\ last_op' = "optimize_trajectory"
    /\ UNCHANGED <<ctl, ticks, wpc, wres, varsVar, varsFis, varsGa>>

reoptimize_trajectory(new_initial_pose) ==
    /\ wpc = "idle"
    /\ \E result \in GaRun(new_initial_pose, hs.final_pose) :
        /\ hs' = StoreResult([hs EXCEPT !.initial_pose = new_initial_pose], result)
        /\ opt_ret' = result
    /\ last_op' = "reoptimize_trajectory"
    /\ UNCHANGED <<ctl, ticks, wpc, wres, varsVar, varsFis, varsGa>>

get_fuzzy_control(vehicle, use_tracking) ==
    /\ ticks < MaxTicks
    /\ ticks' = ticks + 1
    /\ \E inferred \in {ParkingInference[vehicle]} :
        IF FuzzyOnly(hs, use_tracking)
        THEN /\ hs' = [hs EXCEPT !.fuzzy_system = inferred.state]
             /\ ctl' = [vehicle |-> vehicle, use_tracking |-> use_tracking,
                        ga_optimized |-> hs.ga_optimized, tracked |-> FALSE, result |-> NoneVal, path |-> NoneVal,
                        fuzzy_outputs |-> inferred.outputs,
                        tracking_control |-> <<>>,
                        ret |-> Unblended(inferred.outputs)]
        ELSE \E tc \in {CalculateTrackingControl(hs.trajectory_tracker,
                                                 hs.ga_result.vs, vehicle)} :
             /\ hs' = [hs EXCEPT !.fuzzy_system = inferred.state,
                                 !.trajectory_tracker = tc.tracker]
             /\ ctl' = [vehicle |-> vehicle, use_tracking |-> use_tracking,
                        ga_optimized |-> hs.ga_optimized, tracked |-> TRUE, result |-> hs.ga_result,
                        path |-> hs.trajectory_tracker.trajectory,
                        fuzzy_outputs |-> inferred.outputs,
                        tracking_control |-> tc.control,
                        ret |-> Blend(vehicle.sensor_front, inferred.outputs, tc.control)]
    /\ last_op' = "get_fuzzy_control"
    /\ UNCHANGED <<opt_ret, wpc, wres, varsVar, varsFis, varsGa>>

Next ==
    \/ optimize_trajectory
    \/ \E new_initial_pose \in NewPoses : reoptimize_trajectory(new_initial_pose)
    \/ \E vehicle \in Vehicles, use_tracking \in BOOLEAN :
           get_fuzzy_control(vehicle, use_tracking)

Spec == Init /\ [][Next]_vars

\* the engine the controller holds is the one it was built with, up to the
\* memberships infer stores
EngineFixed ==
    [hs.fuzzy_system EXCEPT !.last_input_memberships =
        create_centered_parking_system.last_input_memberships]
    = create_centered_parking_system

Components == {"velocidade", "angulo_direcao"}

\* the last control tick took place with an optimized path and tracking on
TrackingTick == ctl.ga_optimized /\ ctl.use_tracking

\* w1 * fuzzy + w2 * tracking for component c of the last control tick
Mix(c, w1, w2) == w1 * ctl.fuzzy_outputs[c] + w2 * ctl.tracking_control[c]

\* <<weight of fuzzy, weight of tracking>> in hundredths, by band and component
BandWeights(d) ==
    IF d < 15 THEN [velocidade |-> <<70, 30>>, angulo_direcao |-> <<70, 30>>]
    ELSE IF d < 30 THEN [velocidade |-> <<25, 75>>, angulo_direcao |-> <<20, 80>>]
    ELSE [velocidade |-> <<5, 95>>, angulo_direcao |-> <<10, 90>>]

\* C1: with an optimized path and tracking enabled, the command returned by
\* get_fuzzy_control is, for each component, the blend whose weights are
\* picked by the forward sensor distance d alone: d < 15 gives 0.7 fuzzy +
\* 0.3 tracking for both; 15 <= d < 30 gives velocity 0.75 tracking + 0.25
\* fuzzy and steering 0.8 tracking + 0.2 fuzzy; d >= 30 gives velocity 0.95
\* tracking + 0.05 fuzzy and steering 0.9 tracking + 0.1 fuzzy; 15 and 30
\* belong to the upper band and the two weights always sum to 1.
C1_BlendBands ==
    TrackingTick =>
        \A c \in Components :
            LET w == BandWeights(ctl.vehicle.sensor_front)[c]
            IN  /\ ctl.ret[c] = Mix(c, w[1], w[2])
                /\ w[1] + w[2] = BScale

\* a tracking tick at d = 15 whose command differs from what the band below
\* 15 would have returned
C1_Witness ==
    /\ TrackingTick
    /\ ctl.vehicle.sensor_front = 15
    /\ \A c \in Components : ctl.ret[c] # Mix(c, 70, 30)
    /\ ctl.ret.velocidade = Mix("velocidade", 25, 75)

\* C2 as the specification states it: at d >= 30 every component of the
\* command is 0.95 tracking + 0.05 fuzzy, and at d = 10 every component is
\* 0.7 fuzzy + 0.3 tracking.
C2_OneWeightPerBand ==
    TrackingTick =>
        /\ ctl.vehicle.sensor_front >= 30 =>
               \A c \in Components : ctl.ret[c] = Mix(c, 5, 95)
        /\ ctl.vehicle.sensor_front = 10 =>
               \A c \in Components : ctl.ret[c] = Mix(c, 70, 30)

\* C2: at forward sensor distance 50 (any distance >= 30) with tracking
\* active the velocity of the command is 0.95 tracking + 0.05 fuzzy and its
\* steering angle is 0.9 tracking + 0.1 fuzzy; at distance 10 both
\* components are 0.7 fuzzy + 0.3 tracking.
C2_FarAndNear ==
    TrackingTick =>
        /\ ctl.vehicle.sensor_front >= 30 =>
               /\ ctl.ret.velocidade = Mix("velocidade", 5, 95)
               /\ ctl.ret.angulo_direcao = Mix("angulo_direcao", 10, 90)
        /\ ctl.vehicle.sensor_front = 10 =>
               /\ ctl.ret.velocidade = Mix("velocidade", 70, 30)
               /\ ctl.ret.angulo_direcao = Mix("angulo_direcao", 70, 30)

\* a tracking tick at d = 50 in which fuzzy and tracking disagree on the
\* steering angle
C2_Witness ==
    /\ TrackingTick
    /\ ctl.vehicle.sensor_front = 50
    /\ ctl.fuzzy_outputs.angulo_direcao # ctl.tracking_control.angulo_direcao
    /\ ctl.ret.angulo_direcao = Mix("angulo_direcao", 10, 90)

\* C3: if no optimization has completed, or use_tracking is false, the
\* command returned by get_fuzzy_control is exactly what the fuzzy engine
\* infers from the vehicle's four sensor readings, for every forward
\* distance and every tracker state.
C3_FuzzyOnly ==
    (last_op = "get_fuzzy_control" /\ (~ctl.ga_optimized \/ ~ctl.use_tracking)) =>
        \A c \in Components :
            ctl.ret[c] = BScale * InferOutputs(create_centered_parking_system,
                                               FuzzyInputs(ctl.vehicle))[c]

\* a tick with tracking switched off, far from the spot, while a tracker that
\* has already been used exists
C3_Witness ==
    /\ last_op = "get_fuzzy_control"
    /\ ctl.ga_optimized /\ ~ctl.use_tracking
    /\ ctl.vehicle.sensor_front >= 30
    /\ hs.trajectory_tracker.last_velocity # 0
    /\ ctl.ret.velocidade = BScale * ctl.fuzzy_outputs.velocidade

\* what a tracker holds besides its TrackingState
TrackerRest(tr) ==
    IF tr = NoneVal THEN NoneVal
    ELSE [trajectory |-> tr.trajectory, lookahead_distance |-> tr.lookahead_distance]

\* C4 as the specification states it: a control tick leaves everything but
\* the TrackingState as it was, the state of the fuzzy engine included.
C4_OnlyTrackingState ==
    [][ticks' # ticks =>
          /\ hs' = [hs EXCEPT !.trajectory_tracker = hs'.trajectory_tracker]
          /\ TrackerRest(hs'.trajectory_tracker) = TrackerRest(hs.trajectory_tracker)]_vars

\* C4: a control tick changes no state other than the TrackingState and the
\* input memberships the fuzzy engine keeps from its last inference: the
\* stored result, the poses, the flag, the tracker's path and the engine's
\* variables and rules are the same after the call as before it.
C4_TickFrame ==
    [][ticks' # ticks =>
          /\ hs' = [hs EXCEPT !.trajectory_tracker = hs'.trajectory_tracker,
                              !.fuzzy_system.last_input_memberships =
                                  hs'.fuzzy_system.last_input_memberships]
          /\ TrackerRest(hs'.trajectory_tracker) = TrackerRest(hs.trajectory_tracker)]_vars

\* after a tracking tick the tracker's filters and the engine's stored
\* memberships both hold values of that tick
C4_Witness ==
    /\ last_op = "get_fuzzy_control"
    /\ ctl.tracked
    /\ hs.trajectory_tracker.last_velocity # 0
    /\ hs.trajectory_tracker.last_steering # 0
    /\ hs.fuzzy_system.last_input_memberships
           = FuzzifyInputs(create_centered_parking_system, FuzzyInputs(ctl.vehicle))

\* C5: when optimize_trajectory or reoptimize_trajectory has returned, after
\* any control ticks, the controller holds the result just computed for its
\* start pose and a tracker built from that result's path with progress 0,
\* last steering 0 and last velocity 0.
C5_FreshTracker ==
    last_op \in {"optimize_trajectory", "reoptimize_trajectory"} =>
        /\ hs.ga_optimized
        /\ hs.ga_result = opt_ret
        /\ opt_ret \in GaRun(hs.initial_pose, hs.final_pose)
        /\ hs.trajectory_tracker.trajectory = opt_ret.trajectory
        /\ hs.trajectory_tracker.progress = 0
        /\ hs.trajectory_tracker.last_steering = 0
        /\ hs.trajectory_tracker.last_velocity = 0

\* reoptimize_trajectory has returned after a tracking tick that left the old
\* tracker with a non-zero steering filter on another path
C5_Witness ==
    /\ last_op = "reoptimize_trajectory"
    /\ ctl.tracked
    /\ ctl.tracking_control.angulo_direcao # 0
    /\ ctl.path # hs.trajectory_tracker.trajectory
    /\ hs.trajectory_tracker.last_steering = 0

\* v lies on the side of 0 that direction vs drives to
SignOf(vs, v) == IF vs = -1 THEN v <= 0 ELSE v >= 0

\* C25: while the stored plan has direction -1, every tracking velocity
\* command and every stored filtered velocity since the plan was installed is
\* <= 0, and with direction +1 they are >= 0, over any sequence of ticks and
\* re-optimizations
C25_VelocitySign ==
    /\ hs.ga_optimized => SignOf(hs.ga_result.vs, hs.trajectory_tracker.last_velocity)
    /\ (ctl.tracked /\ ctl.result = hs.ga_result) =>
          SignOf(hs.ga_result.vs, ctl.tracking_control.velocidade)

\* a reverse plan installed by a re-optimization after a tick, and a tick on it
C25_Witness ==
    /\ hs.ga_optimized /\ hs.ga_result.vs = -1
    /\ last_op = "get_fuzzy_control" /\ ticks = MaxTicks
    /\ hs.initial_pose \in NewPoses
    /\ ctl.tracked /\ ctl.result = hs.ga_result
    /\ ctl.tracking_control.velocidade < 0
    /\ hs.trajectory_tracker.last_velocity < 0

\* C26: over any sequence of control ticks the stored filtered steering
\* stays within [-40, 40], and so does every steering angle get_fuzzy_control
\* returns (fuzzy output, tracking output or a blend of the two)
C26_SteeringRange ==
    /\ hs.ga_optimized => Abs(hs.trajectory_tracker.last_steering) <= Deg(40)
    /\ ctl.ret # <<>> =>
          /\ Abs(ctl.ret.angulo_direcao) <= Deg(40) * BScale
          /\ Abs(ctl.fuzzy_outputs.angulo_direcao) <= Deg(40)
    /\ ctl.tracked => Abs(ctl.tracking_control.angulo_direcao) <= Deg(40)

\* the second tracked tick on one plan, the clip holding the raw command at
\* 40 both times: 0.7 * (0.3 * 40) + 0.3 * 40
C26_Witness ==
    /\ ctl.tracked /\ ticks = MaxTicks
    /\ Abs(ctl.tracking_control.angulo_direcao) = (7 * ((3 * Deg(40)) \div 10) + 3 * Deg(40)) \div 10
    /\ Abs(ctl.ret.angulo_direcao) > Deg(15) * BScale

----------------------------------------------------------------------------
(* SpecConc: reoptimize_trajectory on a worker thread, one assignment of   *)
(* lines 113-127 per step, while the caller's thread issues control ticks. *)
(* A control tick is one step here; the interpreter may also switch        *)
(* threads inside it, which only adds interleavings.                       *)

\* lines 113-124: the new start pose is stored, then ga.run() returns
worker_run(new_initial_pose) ==
    /\ wpc = "idle"
    /\ hs' = [hs EXCEPT !.initial_pose = new_initial_pose]
    /\ \E result \in GaRun(new_initial_pose, hs.final_pose) : wres' = result
    /\ wpc' = "125"
    /\ UNCHANGED <<last_op, ctl, opt_ret, ticks, varsVar, varsFis, varsGa>>

\* line 125
worker_store_result ==
    /\ wpc = "125"
    /\ hs' = [hs EXCEPT !.ga_result = wres]
    /\ wpc' = "126"
    /\ UNCHANGED <<last_op, ctl, opt_ret, ticks, wres, varsVar, varsFis, varsGa>>

\* line 126
worker_store_tracker ==
    /\ wpc = "126"
    /\ hs' = [hs EXCEPT !.trajectory_tracker = TrajectoryTracker(hs.ga_result.trajectory)]
    /\ wpc' = "127"
    /\ UNCHANGED <<last_op, ctl, opt_ret, ticks, wres, varsVar, varsFis, varsGa>>

\* lines 127-132
worker_return ==
    /\ wpc = "127"
    /\ hs' = [hs EXCEPT !.ga_optimized = TRUE]
    /\ opt_ret' = hs.ga_result
    /\ last_op' = "reoptimize_trajectory"
    /\ wpc' = "idle"
    /\ wres' = NoneVal
    /\ UNCHANGED <<ctl, ticks, varsVar, varsFis, varsGa>>

\* the vehicle states the caller's thread ticks with
ConcVehicles == {VehicleAt(545, 300, 0), VehicleAt(250, 350, -Deg(90))}

NextConc ==
    \/ optimize_trajectory
    \/ \E new_initial_pose \in NewPoses : worker_run(new_initial_pose)
    \/ worker_store_result
    \/ worker_store_tracker
    \/ worker_return
    \/ \E vehicle \in ConcVehicles, use_tracking \in BOOLEAN :
           get_fuzzy_control(vehicle, use_tracking)

SpecConc == Init /\ [][NextConc]_vars

\* C6: with reoptimize_trajectory on a worker, every tracking tick uses a
\* result and a tracker that come from the same optimization: the path the
\* tracker follows is the path of the result whose direction sign the tick
\* reads.
C6_OnePlanPerTick ==
    ctl.tracked => ctl.path = ctl.result.trajectory

----------------------------------------------------------------------------
(* GeneticAlgorithm: parameter encoding. A value, a range bound and a     *)
(* precision are rationals: a value is vn / VDen, a precision 1 / pden,   *)
(* a decoded value num / den. Python's float holds 53 significant bits;   *)
(* the conversion of an integer to float is modelled with Mant            *)
(* significant bits, the other operations exactly.                        *)

VDen == 4

Mant == 9

\* number of binary digits of n >= 0 (0 for n = 0)
RECURSIVE BitLen(_)
BitLen(n) == IF n = 0 THEN 0 ELSE 1 + BitLen(n \div 2)

\* float(n) for an integer n >= 0: n rounded to Mant significant bits, ties
\* to even
Fl(n) ==
    IF BitLen(n) <= Mant THEN n
    ELSE LET unit == 2 ^ (BitLen(n) - Mant)
             q == n \div unit
             r == n % unit
         IN  IF 2 * r > unit \/ (2 * r = unit /\ q % 2 = 1)
             THEN (q + 1) * unit
             ELSE q * unit

\* int(np.ceil(np.log2(n / d))) for n / d >= 1, and 0 where it is negative
\* (the caller takes the maximum with 8)
RECURSIVE CeilLog2From(_, _, _)
CeilLog2From(n, d, b) == IF 2 ^ b * d >= n THEN b ELSE CeilLog2From(n, d, b + 1)

\* _calculate_bits with precision 1 / pden
CalculateBits(min_val, max_val, pden) ==
    Max2(CeilLog2From((max_val - min_val) * pden, 1, 0), 8)

\* format(int_value, '0{bits}b'): the binary digits, padded with zeros on the
\* left to at least bits digits
RECURSIVE Digits(_, _)
Digits(n, width) ==
    IF width = 0 THEN <<>> ELSE Append(Digits(n \div 2, width - 1), n % 2)

ToBinary(int_value, bits) == Digits(int_value, Max2(bits, Max2(BitLen(int_value), 1)))

\* int(''.join(map(str, binary)), 2)
RECURSIVE FromBinary(_, _)
FromBinary(binary, n) ==
    IF n = 0 THEN 0 ELSE 2 * FromBinary(binary, n - 1) + binary[n]

\* _encode_parameter: normalized = nn / nd clipped to [0, 1], times max_int
\* as a float, truncated by int()
EncodeParameter(vn, min_val, max_val, bits) ==
    LET nd == (max_val - min_val) * VDen
        nn == Clip(vn - min_val * VDen, 0, nd)
    IN  ToBinary((nn * Fl(2 ^ bits - 1)) \div nd, bits)

\* _decode_parameter: min_val + int_value / max_int * (max_val - min_val)
DecodeParameter(binary, min_val, max_val) ==
    LET max_int == 2 ^ Len(binary) - 1
    IN  IF max_int > 0
        THEN [num |-> min_val * max_int
                      + FromBinary(binary, Len(binary)) * (max_val - min_val),
              den |-> max_int]
        ELSE [num |-> min_val, den |-> 1]

----------------------------------------------------------------------------
(* SpecEnc: a value of the range is encoded with the bit width of the      *)
(* range and precision, and decoded again                                  *)

Ranges == {<<-2, 2>>, <<0, 1>>, <<-1, 3>>}

\* precision 1, 1/128 and 1/256: over a range of 4 the widths are 8, Mant
\* and Mant + 1
PrecDens == {1, 128, 256}

InitEnc == codec = <<>> /\ dec = <<>> /\ sel = <<>> /\ refp = <<>> /\ sim = <<>> /\ IdleOpt /\ IdleSim /\ IdleVar /\ IdleFis /\ IdleHyb

encode_decode(min_val, max_val, pden, vn) ==
    /\ \E bits \in {CalculateBits(min_val, max_val, pden)} :
       \E binary \in {EncodeParameter(vn, min_val, max_val, bits)} :
           codec' = [min_val |-> min_val, max_val |-> max_val, pden |-> pden,
                     vn |-> vn, bits |-> bits, binary |-> binary,
                     value |-> DecodeParameter(binary, min_val, max_val)]
    /\ UNCHANGED <<dec, sel, refp, sim, varsVar, varsFis, varsHyb, varsOpt, varsSim>>

\* bit lists of width 0 .. MaxWidth handed to _decode_parameter directly, and
\* ranges including collapsed ones (min = max)
MaxWidth == 2

BitLists == UNION {[1 .. n -> {0, 1}] : n \in 0 .. MaxWidth}

DecodeRanges == Ranges \cup {<<1, 1>>, <<-2, -2>>}

\* int(''.join(map(str, binary)), 2): an empty string is no integer literal
DecodeError(binary) == IF Len(binary) = 0 THEN "ValueError" ELSE "none"

decode_parameter(binary, min_val, max_val) ==
    /\ dec' = [binary |-> binary, min_val |-> min_val, max_val |-> max_val,
               exc |-> DecodeError(binary),
               value |-> IF DecodeError(binary) = "none"
                         THEN DecodeParameter(binary, min_val, max_val)
                         ELSE <<>>]
    /\ UNCHANGED <<codec, sel, refp, sim, varsVar, varsFis, varsHyb, varsOpt, varsSim>>

NextEnc ==
    \/ \E range \in Ranges, pden \in PrecDens :
           \E vn \in (range[1] * VDen) .. (range[2] * VDen) :
               encode_decode(range[1], range[2], pden, vn)
    \/ \E binary \in BitLists, range \in DecodeRanges :
           decode_parameter(binary, range[1], range[2])

SpecEnc == InitEnc /\ [][NextEnc]_vars

\* C12: for a range min < max, a precision > 0 and a value v of the range,
\* decoding the bits that encode v (width computed from range and precision,
\* at least 8) gives a value within 2 * precision of v that lies in
\* [min, max].
C12_RoundTrip ==
    codec # <<>> =>
        /\ Abs(codec.value.num * VDen - codec.vn * codec.value.den) * codec.pden
               <= 2 * codec.value.den * VDen
        /\ codec.min_val * codec.value.den <= codec.value.num
        /\ codec.value.num <= codec.max_val * codec.value.den


----------------------------------------------------------------------------
(* GeneticAlgorithm: chromosomes, trajectories and fitness. Positions are  *)
(* whole pixels, lengths and angles are in 1/OScale, a curve parameter k   *)
(* is the rational num / den that _decode_parameter returns.               *)

\* vehicle_params of main_hybrid.py and parallel_parking_ga.py
VehicleLength == 50
VehicleWidth == 25
Wheelbase == 35

\* math.cos / math.sin of a heading that is a multiple of 90 degrees
CosDeg(theta) ==
    IF theta % Deg(360) = 0 THEN 1 ELSE IF theta % Deg(360) = Deg(180) THEN -1 ELSE 0

SinDeg(theta) ==
    IF theta % Deg(360) = Deg(90) THEN 1 ELSE IF theta % Deg(360) = Deg(270) THEN -1 ELSE 0

\* _decode_individual of the class: the three fields of the chromosome
ChromosomeDecode(g, chromosome) ==
    [k0 |-> DecodeParameter(SubSeq(chromosome, 1, g.k0_bits),
                            g.k0_range[1], g.k0_range[2]),
     k1 |-> DecodeParameter(SubSeq(chromosome, g.k0_bits + 1, g.k0_bits + g.k1_bits),
                            g.k1_range[1], g.k1_range[2]),
     vs |-> IF chromosome[g.k0_bits + g.k1_bits + 1] = 1 THEN 1 ELSE -1]

\* forced_decode that returns the chromosome's own direction
ForcedDecode_KeepsBit(decoded, force_direction) == decoded

\* forced_decode of _run_single_phase, lines 157-159
ForcedDecode(decoded, force_direction) == [decoded EXCEPT !.vs = force_direction]

\* self._decode_individual: the class method, or forced_decode while
\* _run_single_phase has replaced it (force_direction 0: not replaced)
DecodeIndividual(g, chromosome) ==
    IF g.force_direction = 0
    THEN ChromosomeDecode(g, chromosome)
    ELSE ForcedDecode(ChromosomeDecode(g, chromosome), g.force_direction)

\* lines 118-121: a control point, k * cos (or sin) * control_scale away
\* from the end point; control_scale = 0.4 * total_dist is cs10 / 10
ControlOffset(k, unit, cs10) == (k.num * unit * cs10) \div (k.den * 10)

\* lines 123-124: the Bezier coordinate at s = i / n
BezierAt(i, n, p0, c1, c2, pf) ==
    ((n - i) * (n - i) * (n - i) * p0 + 3 * (n - i) * (n - i) * i * c1
     + 3 * (n - i) * i * i * c2 + i * i * i * pf) \div (n * n * n)

\* lines 127-130: the derivative at s = i / n, times n * n / 3
BezierSlope(i, n, p0, c1, c2, pf) ==
    (0 - (n - i) * (n - i)) * p0 + ((n - i) * (n - i) - 2 * (n - i) * i) * c1
    + (2 * (n - i) * i - i * i) * c2 + i * i * pf

\* lines 136-139
Turned(vs, theta) ==
    IF vs = -1
    THEN (IF theta + Deg(180) > Deg(180) THEN theta - Deg(180) ELSE theta + Deg(180))
    ELSE theta

\* lines 111-141: the pose at s = i / n for the control points cx, cy
BezierPose(i, n, vs, theta0, x, y) ==
    <<BezierAt(i, n, x[1], x[2], x[3], x[4]),
      BezierAt(i, n, y[1], y[2], y[3], y[4]),
      Turned(vs, IF i = 0 THEN theta0
                 ELSE Atan2Deg(BezierSlope(i, n, y[1], y[2], y[3], y[4]),
                               BezierSlope(i, n, x[1], x[2], x[3], x[4])))>>

\* the length of the segment that ends at point i (1-based, i >= 2)
SegmentLength(trajectory, i) ==
    Dist(trajectory[i][1] - trajectory[i - 1][1], trajectory[i][2] - trajectory[i - 1][2])

\* lines 143-146: path_length
RECURSIVE PathLength(_, _)
PathLength(trajectory, i) ==
    IF i <= 1 THEN 0 ELSE PathLength(trajectory, i - 1) + SegmentLength(trajectory, i)

\* degrees(atan(wheelbase * dtheta / ds)) for dtheta >= 0 in 1/OScale degree
\* and ds > 0 in 1/OScale pixel; pi is 355 / 113
SteeringOf(dtheta, ds) ==
    Atan2Deg((Wheelbase * dtheta * 355) \div 1000, Max2(1, (ds * 180 * 113) \div 1000))

\* lines 160-166: the steering of the segment that ends at point i, 0 where
\* the segment is shorter than 0.01
BezierSteering(trajectory, i) ==
    IF SegmentLength(trajectory, i) > 0
    THEN SteeringOf(Abs(trajectory[i][3] - trajectory[i - 1][3]),
                    SegmentLength(trajectory, i))
    ELSE 0

\* lines 151-166: max_steering
RECURSIVE BezierMaxSteering(_, _)
BezierMaxSteering(trajectory, i) ==
    IF i <= 1 THEN 0
    ELSE Max2(BezierMaxSteering(trajectory, i - 1), BezierSteering(trajectory, i))

\* what a _generate_trajectory returns
Measured(trajectory, max_steering) ==
    [trajectory |-> trajectory,
     path_length |-> PathLength(trajectory, Len(trajectory)),
     max_steering |-> max_steering]

\* GeneticAlgorithm._generate_trajectory for control points x, y
BezierMeasured(trajectory) ==
    Measured(trajectory, BezierMaxSteering(trajectory, Len(trajectory)))

\* the Bezier control points along one axis
ControlPoints(p0, pf, off0, offf) == <<p0, p0 + off0, pf - offf, pf>>

\* GeneticAlgorithm._generate_trajectory
BezierTrajectory(p0, pf, k0, k1, vs) ==
    BezierMeasured(
        [i \in 1 .. NumPoints |->
            BezierPose(i - 1, NumPoints - 1, vs, p0[3],
                ControlPoints(p0[1], pf[1],
                    ControlOffset(k0, CosDeg(p0[3]), (4 * Dist(pf[1] - p0[1], pf[2] - p0[2])) \div 10),
                    ControlOffset(k1, CosDeg(pf[3]), (4 * Dist(pf[1] - p0[1], pf[2] - p0[2])) \div 10)),
                ControlPoints(p0[2], pf[2],
                    ControlOffset(k0, SinDeg(p0[3]), (4 * Dist(pf[1] - p0[1], pf[2] - p0[2])) \div 10),
                    ControlOffset(k1, SinDeg(pf[3]), (4 * Dist(pf[1] - p0[1], pf[2] - p0[2])) \div 10)))])

\* Obstacle.get_bounds widened by detection_radius = max(length, width) / 2
\* on every side (_check_collision, lines 173 and 183-184)
NearObstacle(x, y, obstacle) ==
    /\ 2 * obstacle[1] - Max2(VehicleLength, VehicleWidth) <= 2 * x
    /\ 2 * x <= 2 * (obstacle[1] + obstacle[3]) + Max2(VehicleLength, VehicleWidth)
    /\ 2 * obstacle[2] - Max2(VehicleLength, VehicleWidth) <= 2 * y
    /\ 2 * y <= 2 * (obstacle[2] + obstacle[4]) + Max2(VehicleLength, VehicleWidth)

\* _check_collision
CheckCollision(obstacles, trajectory) ==
    \E i \in 1 .. Len(trajectory) : \E obstacle \in obstacles :
        NearObstacle(trajectory[i][1], trajectory[i][2], obstacle)

\* a cost is kept in units of CostUnit (pixel^2, degree^2)
CostUnit == 100

\* path_length^2 + max_steering^2 for a path of p pixels and a steering of s
\* degrees
Objective(p, s) == (p * p + s * s) \div CostUnit

\* the same with path_length = 100.0 * path_length (line 196)
PenalizedObjective(p, s) ==
    ((100 * 100) \div CostUnit) * (p * p) + (s * s) \div CostUnit

----------------------------------------------------------------------------
(* GeneticAlgorithmParking: the trajectory of the two-phase optimizer. The *)
(* curve parameter s is in 1/1000, the polynomial coefficients in 1/100    *)
(* pixel.                                                                  *)

\* _calculate_intermediate_point: lateral_offset = 1.3 * B + B / 2 + 5 and
\* longitudinal_offset = A * 0.5
LateralOffset == (13 * VehicleWidth + 5 * VehicleWidth + 50) \div 10

LongitudinalOffset == VehicleLength \div 2

CalculateIntermediatePoint(final_pose) ==
    <<final_pose[1] - LateralOffset * SinDeg(final_pose[3])
                    + LongitudinalOffset * CosDeg(final_pose[3]),
      final_pose[2] + LateralOffset * CosDeg(final_pose[3])
                    + LongitudinalOffset * SinDeg(final_pose[3]),
      final_pose[3]>>

\* line 107: s(t) at t = (i / m) * tf, the quintic with s(0) = 0, s(tf) = 1
\* and zero first and second derivatives at both ends, clipped to [0, 1]
QuinticS(i, m) ==
    Clip((1000 * (10 * i * i * i * m * m - 15 * i * i * i * i * m + 6 * i * i * i * i * i))
         \div (m * m * m * m * m), 0, 1000)

\* lines 86-90: vs * k * cos (or sin) of the heading, the end slope
EndSlope(vs, k, unit) == (100 * vs * k.num * unit) \div k.den

\* lines 92-93: the solution of T3 c = (p0, pf, a, b), highest power first
HermiteCoeffs(p0, pf, a, b) ==
    <<a + b - 200 * (pf - p0), 300 * (pf - p0) - 2 * a - b, a, 100 * p0>>

\* lines 110-111
HermiteAt(c, s) ==
    (c[4] + (s * (c[3] + (s * (c[2] + (s * c[1]) \div 1000)) \div 1000)) \div 1000) \div 100

\* lines 114-115
HermiteSlope(c, s) == c[3] + (s * (2 * c[2] + (3 * s * c[1]) \div 1000)) \div 1000

\* lines 113-123: ds_dt is zero at both ends of the curve and positive
\* between them
ParkingHeading(i, m, dy_ds, dx_ds, previous) ==
    IF i # 0 /\ i # m /\ (dx_ds # 0 \/ dy_ds # 0)
    THEN Atan2Deg(dy_ds, dx_ds) ELSE previous

\* lines 104-125: the pose i appended to the poses before it
AppendPose(trajectory, i, m, cx, cy) ==
    Append(trajectory,
           <<HermiteAt(cx, QuinticS(i, m)), HermiteAt(cy, QuinticS(i, m)),
             ParkingHeading(i, m, HermiteSlope(cy, QuinticS(i, m)),
                            HermiteSlope(cx, QuinticS(i, m)),
                            trajectory[Len(trajectory)][3])>>)

\* lines 104-125: the first i + 1 poses
RECURSIVE ParkingPoints(_, _, _, _, _)
ParkingPoints(i, m, theta0, cx, cy) ==
    IF i = 0
    THEN <<<<HermiteAt(cx, 0), HermiteAt(cy, 0), theta0>>>>
    ELSE AppendPose(ParkingPoints(i - 1, m, theta0, cx, cy), i, m, cx, cy)

\* lines 135-145: the steering of the segment that ends at point i
ParkingSteering(trajectory, i) ==
    IF SegmentLength(trajectory, i) > 0
    THEN SteeringOf(Abs(WrapAngle(trajectory[i][3] - trajectory[i - 1][3])),
                    SegmentLength(trajectory, i))
    ELSE 0

RECURSIVE ParkingMaxSteering(_, _)
ParkingMaxSteering(trajectory, i) ==
    IF i <= 1 THEN 0
    ELSE Max2(ParkingMaxSteering(trajectory, i - 1), ParkingSteering(trajectory, i))

ParkingMeasured(trajectory) ==
    Measured(trajectory, ParkingMaxSteering(trajectory, Len(trajectory)))

\* GeneticAlgorithmParking._generate_trajectory
ParkingTrajectory(p0, pf, k0, k1, vs) ==
    ParkingMeasured(
        ParkingPoints(NumPoints - 1, NumPoints - 1, p0[3],
            HermiteCoeffs(p0[1], pf[1], EndSlope(vs, k0, CosDeg(p0[3])),
                                        EndSlope(vs, k1, CosDeg(pf[3]))),
            HermiteCoeffs(p0[2], pf[2], EndSlope(vs, k0, SinDeg(p0[3])),
                                        EndSlope(vs, k1, SinDeg(pf[3])))))

\* self._generate_trajectory of the object g
Trajectory(g, decoded) ==
    IF g.kind = "GeneticAlgorithmParking"
    THEN ParkingTrajectory(g.initial_pose, g.final_pose, decoded.k0, decoded.k1, decoded.vs)
    ELSE BezierTrajectory(g.initial_pose, g.final_pose, decoded.k0, decoded.k1, decoded.vs)

\* _evaluate_fitness for a generated trajectory
FitnessOf(obstacles, generated) ==
    IF CheckCollision(obstacles, generated.trajectory)
    THEN 0 - PenalizedObjective(generated.path_length \div OScale, generated.max_steering \div OScale)
    ELSE 0 - Objective(generated.path_length \div OScale, generated.max_steering \div OScale)

\* _evaluate_fitness
EvaluateFitness(g, chromosome) ==
    FitnessOf(g.obstacles, Trajectory(g, DecodeIndividual(g, chromosome)))

----------------------------------------------------------------------------
(* GeneticAlgorithm.run and GeneticAlgorithmParking.run *)

\* GeneticAlgorithm.__init__ and GeneticAlgorithmParking.__init__; the
\* precision is 1 / pden; force_direction 0 stands for the class's own
\* _decode_individual
GeneticAlgorithm(kind, initial_pose, final_pose, obstacles, population_size, generations, range, pden, use_two_phase) ==
    [kind |-> kind, initial_pose |-> initial_pose, final_pose |-> final_pose,
     obstacles |-> obstacles, population_size |-> population_size,
     generations |-> generations, k0_range |-> range, k1_range |-> range,
     k0_bits |-> CalculateBits(range[1], range[2], pden),
     k1_bits |-> CalculateBits(range[1], range[2], pden),
     chromosome_length |-> 2 * CalculateBits(range[1], range[2], pden) + 1,
     best_fitness_history |-> <<>>, avg_fitness_history |-> <<>>,
     best_individual_history |-> <<>>,
     use_two_phase |-> use_two_phase, force_direction |-> 0,
     original_initial_pose |-> initial_pose, original_final_pose |-> final_pose]

\* _create_individual for the draws k0 = k0n / VDen, k1 = k1n / VDen and vs
CreateIndividual(g, k0n, k1n, vs) ==
    EncodeParameter(k0n, g.k0_range[1], g.k0_range[2], g.k0_bits)
    \o EncodeParameter(k1n, g.k1_range[1], g.k1_range[2], g.k1_bits)
    \o <<IF vs = 1 THEN 1 ELSE 0>>

\* _crossover: point 0 stands for the draw above crossover_rate, which
\* returns copies of the parents
Crossover(parent1, parent2, point) ==
    IF point = 0 THEN <<parent1, parent2>>
    ELSE <<SubSeq(parent1, 1, point) \o SubSeq(parent2, point + 1, Len(parent2)),
           SubSeq(parent2, 1, point) \o SubSeq(parent1, point + 1, Len(parent1))>>

\* _mutate: mask is the set of positions whose draw fell below mutation_rate
Mutate(chromosome, mask) ==
    [i \in 1 .. Len(chromosome) |->
        IF i \in mask THEN 1 - chromosome[i] ELSE chromosome[i]]

\* np.random.randint(1, len(parent1)), or 0 for no crossover
CrossoverPoints(len) == {0, 1, len - 1}

\* the positions flipped by one _mutate call
Masks(len) == {{}, {1}, {len}}

\* the random draws of one pass of the while loop, lines 279-287
PairDraws(g) ==
    [p1 : 1 .. g.population_size, p2 : 1 .. g.population_size,
     point : CrossoverPoints(g.chromosome_length),
     m1 : Masks(g.chromosome_length), m2 : Masks(g.chromosome_length)]

\* lines 283-287: the mutated children of a pair <<child1, child2>>
MutateBoth(children, m1, m2) == <<Mutate(children[1], m1), Mutate(children[2], m2)>>

\* lines 279-287: one pass of the while loop; every individual has a
\* positive share of the wheel (fitness - min + 1e-10)
Children(population, draw) ==
    MutateBoth(Crossover(population[draw.p1], population[draw.p2], draw.point),
               draw.m1, draw.m2)

\* lines 278-288: what n passes of the while loop append
RECURSIVE Offspring(_, _, _)
Offspring(population, draws, n) ==
    IF n = 0 THEN <<>>
    ELSE Offspring(population, draws, n - 1) \o Children(population, draws[n])

\* lines 274-290 without the truncation of line 290
NewPopulation_NoTruncate(g, population, best_individual, draws) ==
    <<best_individual>> \o Offspring(population, draws, g.population_size \div 2)

\* lines 274-290 with the trailing bit of the elite flipped
NewPopulation_MutatedElite(g, population, best_individual, draws) ==
    SubSeq(<<Mutate(best_individual, {Len(best_individual)})>>
           \o Offspring(population, draws, g.population_size \div 2),
           1, g.population_size)

NewPopulation(g, population, best_individual, draws) ==
    SubSeq(<<best_individual>> \o Offspring(population, draws, g.population_size \div 2),
           1, g.population_size)

\* line 255
Fitnesses(g, population) ==
    [i \in 1 .. Len(population) |-> EvaluateFitness(g, population[i])]

\* np.argmax: the first index of the maximum
ArgMax(fitness) ==
    CHOOSE i \in 1 .. Len(fitness) :
        /\ \A j \in 1 .. Len(fitness) : fitness[j] <= fitness[i]
        /\ \A j \in 1 .. i - 1 : fitness[j] < fitness[i]

RECURSIVE SumTo(_, _)
SumTo(fitness, n) == IF n = 0 THEN 0 ELSE SumTo(fitness, n - 1) + fitness[n]

\* -np.mean(fitness)
MeanCost(fitness) == (0 - SumTo(fitness, Len(fitness))) \div Len(fitness)

\* the locals of run at line 251-252; best_individual <<>> is None, and
\* best_fitness is -inf while it is; fitness is the list of line 255
RunFrame(population) ==
    [pc |-> "loop", population |-> population, best_individual |-> <<>>,
     best_fitness |-> 0, generation |-> 0, fitness |-> <<>>]

\* lines 257-260
UpdateBest(r, fitness, idx) ==
    IF r.best_individual = <<>> \/ fitness[idx] > r.best_fitness
    THEN [r EXCEPT !.best_fitness = fitness[idx], !.best_individual = r.population[idx]]
    ELSE r

\* lines 263-265
AppendHistories(g, r, fitness) ==
    [g EXCEPT !.best_fitness_history = Append(@, 0 - r.best_fitness),
              !.avg_fitness_history = Append(@, MeanCost(fitness)),
              !.best_individual_history = Append(@, r.best_individual)]

\* lines 292-307 for the decoded best individual and its trajectory
ResultOf(g, decoded, generated) ==
    [k0 |-> decoded.k0, k1 |-> decoded.k1, vs |-> decoded.vs,
     path_length |-> generated.path_length,
     max_steering |-> generated.max_steering,
     objective_value |-> Objective(generated.path_length \div OScale,
                                   generated.max_steering \div OScale),
     has_collision |-> CheckCollision(g.obstacles, generated.trajectory),
     trajectory |-> generated.trajectory,
     fitness_history |-> g.best_fitness_history,
     avg_fitness_history |-> g.avg_fitness_history]

GeneratedResult(g, decoded) == ResultOf(g, decoded, Trajectory(g, decoded))

\* lines 292-307
RunResult(g, r) == GeneratedResult(g, DecodeIndividual(g, r.best_individual))

\* a result dictionary holds the optimizer's two history lists themselves,
\* not copies: what is appended to them later shows in the dictionary
Shared(g, result) ==
    IF result = <<>> THEN result
    ELSE [result EXCEPT !.fitness_history = g.best_fitness_history,
                        !.avg_fitness_history = g.avg_fitness_history]

\* _combine_phases with the steering maximum of phase 1 alone
CombinePhases_FirstSteering(phase1, phase2) ==
    [phase1 |-> phase1, phase2 |-> phase2,
     trajectory |-> phase1.trajectory \o phase2.trajectory,
     path_length |-> phase1.path_length + phase2.path_length,
     max_steering |-> phase1.max_steering,
     k0_phase1 |-> phase1.k0, k1_phase1 |-> phase1.k1,
     k0_phase2 |-> phase2.k0, k1_phase2 |-> phase2.k1,
     intermediate_point |-> IF phase1.trajectory # <<>>
                            THEN phase1.trajectory[Len(phase1.trajectory)] ELSE <<>>,
     fitness_history |-> phase1.fitness_history \o phase2.fitness_history,
     has_collision |-> phase1.has_collision \/ phase2.has_collision]

\* _combine_phases
CombinePhases(phase1, phase2) ==
    [phase1 |-> phase1, phase2 |-> phase2,
     trajectory |-> phase1.trajectory \o phase2.trajectory,
     path_length |-> phase1.path_length + phase2.path_length,
     max_steering |-> Max2(phase1.max_steering, phase2.max_steering),
     k0_phase1 |-> phase1.k0, k1_phase1 |-> phase1.k1,
     k0_phase2 |-> phase2.k0, k1_phase2 |-> phase2.k1,
     intermediate_point |-> IF phase1.trajectory # <<>>
                            THEN phase1.trajectory[Len(phase1.trajectory)] ELSE <<>>,
     fitness_history |-> phase1.fitness_history \o phase2.fitness_history,
     has_collision |-> phase1.has_collision \/ phase2.has_collision]

----------------------------------------------------------------------------
(* SpecGa: one optimizer object and one call of its run. *)

\* largest population_size and generations of a run
MaxPop == 2
MaxGen == 2

\* the precision 1 / GaPrecDen gives k0 and k1 eight bits each
GaPrecDen == 50

\* obstacles of main_hybrid.py and of parallel_parking_ga.py, as
\* <<x, y, width, height>>
HybridObstacles == {<<600, 170, 150, 10>>, <<600, 410, 150, 10>>, <<750, 170, 10, 250>>}

ParkingObstacles ==
    {<<700, 170, 60, 120>>, <<700, 430, 60, 120>>, <<770, 0, 10, 700>>, <<0, 0, 10, 700>>}

\* the start poses of the two-phase optimizer: that of parallel_parking_ga.py,
\* one beside the spot, and one beside the parked car ahead of the spot
ParkingStarts == {<<650, 100, Deg(90)>>, <<680, 375, Deg(90)>>, <<720, 200, Deg(90)>>}

\* the optimizers of a run: the base class between two poses of the hybrid
\* controller, and the two-phase class for the parallel parking spot
Optimizers ==
    {GeneticAlgorithm("GeneticAlgorithm", <<545, 300, 0>>, <<675, 290, 0>>,
                      HybridObstacles, n, g, <<-2, 2>>, GaPrecDen, FALSE) :
        n \in 1 .. MaxPop, g \in 1 .. MaxGen}
    \cup
    {GeneticAlgorithm("GeneticAlgorithmParking", p0, <<730, 360, Deg(90)>>,
                      ParkingObstacles, n, g, <<-2, 2>>, GaPrecDen, TRUE) :
        p0 \in ParkingStarts, n \in 1 .. MaxPop, g \in 1 .. MaxGen}
    \cup
    {GeneticAlgorithm("GeneticAlgorithmParking", <<720, 200, Deg(90)>>, <<730, 360, Deg(90)>>,
                      ParkingObstacles, n, g, <<-2, 2>>, GaPrecDen, FALSE) :
        n \in 1 .. MaxPop, g \in 1 .. MaxGen}

\* the draws <<k0 * VDen, k1 * VDen, vs>> of _create_individual
Draws == {<<0, 0, 1>>, <<4, -4, -1>>}

\* the decode restored, the poses left as phase 2 set them
Restored_KeepsPhasePoses(g) == [g EXCEPT !.force_direction = 0]

\* _run_single_phase line 167 at the end of phase 2 and run lines 224-225
Restored(g) ==
    [g EXCEPT !.initial_pose = g.original_initial_pose,
              !.final_pose = g.original_final_pose,
              !.force_direction = 0]

\* the two calls of GeneticAlgorithm.run a two-phase run of g makes, as
\* <<initial_pose, final_pose, force_direction>> (run lines 206-221)
SubProblems(g) ==
    <<<<g.initial_pose, CalculateIntermediatePoint(g.original_final_pose), 1>>,
      <<CalculateIntermediatePoint(g.original_final_pose), g.original_final_pose, -1>>>>

NoFrame ==
    [pc |-> "idle", population |-> <<>>, best_individual |-> <<>>,
     best_fitness |-> 0, generation |-> 0, fitness |-> <<>>]

NoParkingFrame ==
    [pc |-> "idle", intermediate |-> <<>>, phase1_result |-> <<>>,
     phase2_result |-> <<>>, problems |-> <<>>]

\* the caller has built the optimizer and calls its run
InitGa ==
    /\ ga \in Optimizers
    /\ ga_run = [NoFrame EXCEPT !.pc = IF ga.kind = "GeneticAlgorithm" THEN "call" ELSE "idle"]
    /\ pk_run = [NoParkingFrame EXCEPT !.pc = IF ga.kind = "GeneticAlgorithm" THEN "idle" ELSE "call"]
    /\ ga_ret = <<>>
    /\ codec = <<>>
    /\ IdleSim /\ IdleAux /\ IdleVar /\ IdleFis /\ IdleHyb

\* GeneticAlgorithm.run, lines 249-252
run_begin ==
    /\ ga_run.pc = "call"
    /\ \E draws \in [1 .. ga.population_size -> Draws] :
           ga_run' = RunFrame([i \in 1 .. ga.population_size |->
                                  CreateIndividual(ga, draws[i][1], draws[i][2], draws[i][3])])
    /\ UNCHANGED <<ga, pk_run, ga_ret, codec, varsSim, varsAux, varsVar, varsFis, varsHyb>>

\* GeneticAlgorithm.run, lines 254-290: one pass of the generation loop
run_generation ==
    /\ ga_run.pc = "loop"
    /\ ga_run.generation < ga.generations
    /\ \E fitness \in {Fitnesses(ga, ga_run.population)} :
       \E r \in {UpdateBest(ga_run, fitness, ArgMax(fitness))} :
           /\ ga' = AppendHistories(ga, r, fitness)
           /\ \E draws \in [1 .. ga.population_size \div 2 -> PairDraws(ga)] :
                  ga_run' = [r EXCEPT !.generation = @ + 1, !.fitness = fitness,
                                      !.population = NewPopulation(ga, r.population,
                                                                   r.best_individual, draws)]
    /\ pk_run' = [pk_run EXCEPT !.phase1_result = Shared(ga', @)]
    /\ UNCHANGED <<ga_ret, codec, varsSim, varsAux, varsVar, varsFis, varsHyb>>

\* GeneticAlgorithm.run of the base class, lines 292-321
run_return ==
    /\ ga_run.pc = "loop"
    /\ ga_run.generation = ga.generations
    /\ pk_run.pc = "idle"
    /\ ga_ret' = RunResult(ga, ga_run)
    /\ ga_run' = [ga_run EXCEPT !.pc = "returned"]
    /\ UNCHANGED <<ga, pk_run, codec, varsSim, varsAux, varsVar, varsFis, varsHyb>>

\* GeneticAlgorithmParking.run, lines 193-211, up to the call of
\* GeneticAlgorithm.run in _run_single_phase (lines 153-164)
parking_run ==
    /\ pk_run.pc = "call"
    /\ IF ga.use_two_phase
       THEN \E intermediate \in {CalculateIntermediatePoint(ga.original_final_pose)} :
               /\ ga' = [ga EXCEPT !.final_pose = intermediate, !.force_direction = 1]
               /\ pk_run' = [pk_run EXCEPT !.pc = "phase1", !.intermediate = intermediate,
                                           !.problems = <<<<ga.initial_pose, intermediate, 1>>>>]
       ELSE /\ pk_run' = [pk_run EXCEPT !.pc = "single"]
            /\ UNCHANGED ga
    /\ ga_run' = [NoFrame EXCEPT !.pc = "call"]
    /\ UNCHANGED <<ga_ret, codec, varsSim, varsAux, varsVar, varsFis, varsHyb>>

\* the return of phase 1 (genetic_algorithm.py 292-321, _run_single_phase
\* 167-169) and lines 219-221 up to the call of GeneticAlgorithm.run
parking_phase2 ==
    /\ pk_run.pc = "phase1"
    /\ ga_run.pc = "loop"
    /\ ga_run.generation = ga.generations
    /\ pk_run' = [pk_run EXCEPT !.pc = "phase2", !.phase1_result = RunResult(ga, ga_run),
                                !.problems = Append(@, <<pk_run.intermediate,
                                                         ga.original_final_pose, -1>>)]
    /\ ga' = [ga EXCEPT !.initial_pose = pk_run.intermediate,
                        !.final_pose = ga.original_final_pose,
                        !.force_direction = -1]
    /\ ga_run' = [NoFrame EXCEPT !.pc = "call"]
    /\ UNCHANGED <<ga_ret, codec, varsSim, varsAux, varsVar, varsFis, varsHyb>>

\* the return of phase 2 and lines 224-238
parking_return ==
    /\ pk_run.pc = "phase2"
    /\ ga_run.pc = "loop"
    /\ ga_run.generation = ga.generations
    /\ \E phase2_result \in {RunResult(ga, ga_run)} :
           /\ pk_run' = [pk_run EXCEPT !.pc = "returned", !.phase2_result = phase2_result]
           /\ ga_ret' = CombinePhases(pk_run.phase1_result, phase2_result)
    /\ ga' = Restored(ga)
    /\ ga_run' = [ga_run EXCEPT !.pc = "returned"]
    /\ UNCHANGED <<codec, varsSim, varsAux, varsVar, varsFis, varsHyb>>

\* the return of _run_single_phase(force_direction=None), lines 194-196
parking_single_return ==
    /\ pk_run.pc = "single"
    /\ ga_run.pc = "loop"
    /\ ga_run.generation = ga.generations
    /\ ga_ret' = RunResult(ga, ga_run)
    /\ pk_run' = [pk_run EXCEPT !.pc = "returned"]
    /\ ga_run' = [ga_run EXCEPT !.pc = "returned"]
    /\ UNCHANGED <<ga, codec, varsSim, varsAux, varsVar, varsFis, varsHyb>>

NextGa ==
    \/ run_begin
    \/ run_generation
    \/ run_return
    \/ parking_run
    \/ parking_phase2
    \/ parking_return
    \/ parking_single_return

SpecGa == InitGa /\ [][NextGa]_vars

\* the results that GeneticAlgorithm.run has returned so far: to the caller
\* of the base class, or to GeneticAlgorithmParking.run for a phase
ReturnedResults ==
    (IF ga_ret # <<>> /\ ~ga.use_two_phase THEN {ga_ret} ELSE {})
    \cup (IF pk_run.phase1_result # <<>> THEN {pk_run.phase1_result} ELSE {})
    \cup (IF pk_run.phase2_result # <<>> THEN {pk_run.phase2_result} ELSE {})

NeverRises(history) ==
    \A i \in 2 .. Len(history) : history[i] <= history[i - 1]

\* C13: in the fitness history of every result that run returns (the base
\* optimizer's and each phase's of the two-phase optimizer), no entry is
\* larger than the entry of the generation before it.
C13_HistoryNonIncreasing ==
    \A result \in ReturnedResults : NeverRises(result.fitness_history)

\* the same for the runs that start on an optimizer with empty histories:
\* the base optimizer's, the single-phase run and phase 1
C13_FirstRun ==
    pk_run.pc # "phase2" /\ pk_run.phase2_result = <<>> =>
        \A result \in ReturnedResults : NeverRises(result.fitness_history)

\* both history arrays of a result have one entry per generation
OnePerGeneration(result) ==
    /\ Len(result.fitness_history) = ga.generations
    /\ Len(result.avg_fitness_history) = ga.generations

\* C14: a run with population size >= 1 and G >= 1 generations returns after
\* exactly G passes of the generation loop, and the best-cost and mean-cost
\* history arrays of the result it returns have exactly G entries each, for
\* the base optimizer and for each phase result of the two-phase optimizer.
C14_ExactlyG ==
    /\ ga_run.pc = "returned" => ga_run.generation = ga.generations
    /\ \A result \in ReturnedResults : OnePerGeneration(result)

\* the same for the runs that start on an optimizer with empty histories
C14_FirstRun ==
    /\ ga_run.pc = "returned" => ga_run.generation = ga.generations
    /\ pk_run.pc # "phase2" /\ pk_run.phase2_result = <<>> =>
           \A result \in ReturnedResults : OnePerGeneration(result)

\* C15: the result of the two-phase run has the phase-1 trajectory followed
\* by the phase-2 trajectory (order kept), the sum of the two path lengths,
\* the larger of the two steering maxima and the disjunction of the two
\* collision flags.
C15_Combined ==
    pk_run.pc = "returned" /\ ga.use_two_phase =>
        LET p1 == pk_run.phase1_result
            p2 == pk_run.phase2_result
        IN  /\ Len(ga_ret.trajectory) = Len(p1.trajectory) + Len(p2.trajectory)
            /\ \A i \in 1 .. Len(p1.trajectory) : ga_ret.trajectory[i] = p1.trajectory[i]
            /\ \A i \in 1 .. Len(p2.trajectory) :
                   ga_ret.trajectory[Len(p1.trajectory) + i] = p2.trajectory[i]
            /\ ga_ret.path_length = p1.path_length + p2.path_length
            /\ ga_ret.max_steering >= p1.max_steering
            /\ ga_ret.max_steering >= p2.max_steering
            /\ ga_ret.max_steering \in {p1.max_steering, p2.max_steering}
            /\ ga_ret.has_collision = (p1.has_collision \/ p2.has_collision)

C15_Witness ==
    /\ pk_run.pc = "returned" /\ ga.use_two_phase
    /\ pk_run.phase1_result.max_steering < pk_run.phase2_result.max_steering
    /\ pk_run.phase1_result.trajectory # pk_run.phase2_result.trajectory
    /\ pk_run.phase1_result.has_collision /\ ~pk_run.phase2_result.has_collision

\* the direction a phase of the two-phase run forces
PhaseDirection == IF pk_run.pc = "phase1" THEN 1 ELSE -1

\* chromosome with its trailing bit set to bit
WithTrailingBit(chromosome, bit) == [chromosome EXCEPT ![Len(chromosome)] = bit]

\* C16: while a phase runs with a forced direction d, decoding a chromosome
\* yields d whatever its trailing bit is (so for the population that is
\* evaluated and for the history snapshots), the phase result carries d, and
\* phase 1 forces +1 and phase 2 forces -1.
C16_ForcedDirection ==
    /\ pk_run.pc \in {"phase1", "phase2"} /\ ga_run.pc = "loop" =>
           \A i \in 1 .. Len(ga_run.population) : \A bit \in {0, 1} :
               DecodeIndividual(ga, WithTrailingBit(ga_run.population[i], bit)).vs
                   = PhaseDirection
    /\ pk_run.pc \in {"phase1", "phase2"} /\ ga_run.pc = "loop" /\ ga_run.generation > 0 =>
           DecodeIndividual(ga, ga.best_individual_history[Len(ga.best_individual_history)]).vs
               = PhaseDirection
    /\ pk_run.phase1_result # <<>> => pk_run.phase1_result.vs = 1
    /\ pk_run.phase2_result # <<>> => pk_run.phase2_result.vs = -1

C16_Witness ==
    /\ pk_run.pc = "phase2" /\ ga_run.pc = "loop" /\ ga_run.generation > 0
    /\ ga.best_individual_history[1][ga.chromosome_length] = 0
    /\ pk_run.phase1_result.vs = 1
    /\ ga.best_individual_history[Len(ga.best_individual_history)][ga.chromosome_length] = 1

\* C19: in every generation of a run the population has exactly
\* population_size chromosomes, each of exactly k0_bits + k1_bits + 1 bits
\* that are 0 or 1: creation, selection, single-point crossover (point in
\* 1 .. length - 1) and mutation keep this.
C19_PopulationShape ==
    ga_run.pc = "loop" =>
        /\ Len(ga_run.population) = ga.population_size
        /\ \A i \in 1 .. Len(ga_run.population) :
               /\ Len(ga_run.population[i]) = ga.k0_bits + ga.k1_bits + 1
               /\ \A j \in 1 .. Len(ga_run.population[i]) : ga_run.population[i][j] \in {0, 1}

\* a population after the first generation that holds a chromosome which is
\* none of the created ones
C19_Witness ==
    /\ ga_run.pc = "loop" /\ ga_run.generation = ga.generations
    /\ ga.population_size > 1
    /\ \E i \in 1 .. Len(ga_run.population) :
           \A draw \in Draws :
               ga_run.population[i] # CreateIndividual(ga, draw[1], draw[2], draw[3])

\* C20: a pass of the generation loop puts into the first slot of the next
\* population an unchanged copy of a chromosome of the current population
\* whose fitness is the maximum of the current generation.
C20_ElitePreserved ==
    [][ga_run'.generation = ga_run.generation + 1 =>
          \E i \in 1 .. Len(ga_run.population) :
              /\ ga_run'.population[1] = ga_run.population[i]
              /\ \A j \in 1 .. Len(ga_run.population) :
                     ga_run'.fitness[j] <= ga_run'.fitness[i]]_vars

\* the fitness list of a pass is that of the population the pass started with
C20_FitnessOfCurrent ==
    [][ga_run'.generation = ga_run.generation + 1 =>
          ga_run'.fitness = Fitnesses(ga, ga_run.population)]_vars

\* after two generations the elite stands in the first slot, differs from
\* the second slot, and was replaced by a fitter one in the second generation
C20_Witness ==
    /\ ga_run.pc = "loop" /\ ga_run.generation >= 2
    /\ ga.population_size > 1
    /\ ga_run.population[1] = ga_run.best_individual
    /\ ga_run.population[1] # ga_run.population[2]
    /\ Len(ga.best_individual_history) >= 2
    /\ ga.best_individual_history[1] # ga.best_individual_history[2]

\* what a single GeneticAlgorithm.run on a fresh optimizer returned: the
\* base optimizer's run or the parking optimizer's single-phase run
SingleRunReturned == ga_ret # <<>> /\ "phase1" \notin DOMAIN ga_ret

LastCost(result) == result.fitness_history[Len(result.fitness_history)]

\* C28: in the result of a single optimization run on a fresh optimizer,
\* objective_value equals the last entry of fitness_history, with and
\* without a collision
C28_ObjectiveIsLastCost ==
    SingleRunReturned => ga_ret.objective_value = LastCost(ga_ret)

\* the part of C28 that holds: a best individual whose path is free of
\* collisions
C28_WithoutCollision ==
    (SingleRunReturned /\ ~ga_ret.has_collision) =>
        ga_ret.objective_value = LastCost(ga_ret)

\* the two-phase run has returned
TwoPhaseReturned == ga # <<>> /\ ga.use_two_phase /\ pk_run.pc = "returned"

\* C29: after the two-phase run returns, the optimizer's start and goal pose
\* are the poses it was constructed with and its decode is not forced (the
\* direction is the sign of the chromosome's trailing bit), so that a second
\* run has the same intermediate pose and the same two sub-problems
C29_Restored ==
    TwoPhaseReturned =>
        /\ ga.initial_pose = ga.original_initial_pose
        /\ ga.final_pose = ga.original_final_pose
        /\ ga.force_direction = 0
        /\ \A i \in 1 .. Len(ga_run.population) :
              DecodeIndividual(ga, ga_run.population[i]).vs
                  = IF ga_run.population[i][ga.chromosome_length] = 1 THEN 1 ELSE -1
        /\ CalculateIntermediatePoint(ga.original_final_pose) = pk_run.intermediate
        /\ SubProblems(ga) = pk_run.problems

\* a returned two-phase run whose last population holds a chromosome with
\* trailing bit 1, which phase 2 decoded as -1
C29_Witness ==
    /\ TwoPhaseReturned
    /\ Len(pk_run.problems) = 2
    /\ pk_run.problems[1][1] # pk_run.problems[2][1]
    /\ \E i \in 1 .. Len(ga_run.population) :
          ga_run.population[i][ga.chromosome_length] = 1

----------------------------------------------------------------------------
(* Vehicle (simulation.py) and SpecSim: a vehicle that is driven step by   *)
(* step, and a tracker that is asked for its tracking error.  Velocities   *)
(* are in 1/OScale pixel per second, sines and tangents in 1/1000.         *)

\* 1000 * sin of a heading in 1/OScale degree: Bhaskara's approximation
\* 4 x (180 - x) / (40500 - x (180 - x)) on [0, 180], exact at 0, 90, 180
HalfSine(a) == (4000 * ((a * (Deg(180) - a)) \div 100)) \div (40500 - (a * (Deg(180) - a)) \div 100)

Sin1000(a) ==
    IF a % Deg(360) <= Deg(180) THEN HalfSine(a % Deg(360))
    ELSE 0 - HalfSine((a % Deg(360)) - Deg(180))

Cos1000(a) == Sin1000(a + Deg(90))

\* Vehicle.__init__ (the sensor readings and parking flags are not read by
\* update_kinematics)
Vehicle(x, y, angle, length) ==
    [x |-> x, y |-> y, angle |-> angle, length |-> length,
     steering_angle |-> 0, velocity |-> 0, wheelbase |-> (length * 7) \div 10,
     trajectory |-> <<<<x, y>>>>, max_trajectory_points |-> 500]

\* line 95 with the upper end kept: 180 stays 180
NormalizeHeading_UpperEnd(angle) == Deg(180) - ((Deg(180) - angle) % Deg(360))

\* line 95: (self.angle + 180) % 360 - 180
NormalizeHeading(angle) == ((angle + Deg(180)) % Deg(360)) - Deg(180)

\* lines 80-86: math.degrees(omega * dt) with omega = velocity * tan(delta)
\* / wheelbase, for dt = 1 / dtden; pi is 355 / 113
TurnOf(v, dtden) ==
    (v.velocity * ((1000 * Sin1000(v.steering_angle)) \div Cos1000(v.steering_angle)) * 2034)
        \div (v.wheelbase * 35500 * dtden)

\* lines 82-83 and 88-89: velocity * cos(theta) * dt (or sin), in pixels
Advance(velocity, unit1000, dtden) == (velocity * unit1000) \div (OScale * 1000 * dtden)

\* lines 75-93: the pose after the step
Moved(v, dtden) ==
    [v EXCEPT !.x = @ + Advance(v.velocity, Cos1000(v.angle), dtden),
              !.y = @ + Advance(v.velocity, Sin1000(v.angle), dtden),
              !.angle = IF v.steering_angle # 0 THEN @ + TurnOf(v, dtden) ELSE @]

\* lines 97-99
Recorded(v) ==
    [v EXCEPT !.trajectory =
        IF Len(v.trajectory) + 1 > v.max_trajectory_points
        THEN Tail(Append(v.trajectory, <<v.x, v.y>>))
        ELSE Append(v.trajectory, <<v.x, v.y>>)]

\* lines 95-99
Normalized(v) == Recorded([v EXCEPT !.angle = NormalizeHeading(@)])

\* Vehicle.update_kinematics(dt) for dt = 1 / dtden
UpdateKinematics(v, dtden) ==
    IF v.velocity = 0 THEN v ELSE Normalized(Moved(v, dtden))

\* number of kinematic updates in a behaviour
MaxUpdates == 3

\* dt = 0.1 (simulation.py, line 310)
DtDen == 10

\* headings a vehicle is built with
StartHeadings == {0, Deg(90), Deg(180), Deg(540), 0 - Deg(90)}

\* headings of the reference pose
ReferenceHeadings == {0, Deg(90), Deg(180), 0 - Deg(90), 0 - Deg(180)}

\* steering angles and velocities the controller sets (simulation.py 267-268)
Steerings == {0, Deg(40), 0 - Deg(40)}

Velocities == {0, Deg(50)}

InitSim ==
    /\ veh \in {Vehicle(500, 300, angle, 40) : angle \in StartHeadings}
    /\ trk \in {TrajectoryTracker(<<<<500, 300, 0>>, <<560, 300, angle_ref>>>>) :
                   angle_ref \in ReferenceHeadings}
    /\ terr = <<>>
    /\ codec = <<>>
    /\ IdleOpt /\ IdleAux /\ IdleVar /\ IdleFis /\ IdleHyb

\* the caller sets steering_angle and velocity (simulation.py 267-268) and
\* calls Vehicle.update_kinematics(dt)
update_kinematics(steering_angle, velocity) ==
    /\ Len(veh.trajectory) <= MaxUpdates
    /\ veh' = UpdateKinematics([veh EXCEPT !.steering_angle = steering_angle,
                                           !.velocity = velocity], DtDen)
    /\ UNCHANGED <<trk, terr, codec, varsOpt, varsAux, varsVar, varsFis, varsHyb>>

\* TrajectoryTracker.calculate_tracking_error for the vehicle's pose
calculate_tracking_error ==
    /\ \E r \in {CalculateTrackingError(trk, veh.x, veh.y, veh.angle)} :
           /\ trk' = r.tracker
           /\ terr' = [vehicle_angle |-> veh.angle, angle_error |-> r.angle_error,
                       position_error |-> r.position_error,
                       reference_angle |-> r.reference_angle]
    /\ UNCHANGED <<veh, codec, varsOpt, varsAux, varsVar, varsFis, varsHyb>>

NextSim ==
    \/ \E steering_angle \in Steerings, velocity \in Velocities :
           update_kinematics(steering_angle, velocity)
    \/ calculate_tracking_error

SpecSim == InitSim /\ [][NextSim]_vars

\* C17: for every reference heading and every vehicle heading the angle
\* error that calculate_tracking_error returns lies in (-180, 180]: never
\* exactly -180, never outside.
C17_AngleErrorRange ==
    terr # <<>> => -Deg(180) < terr.angle_error /\ terr.angle_error <= Deg(180)

\* what the two loops of lines 43-47 do give: the closed interval
C17_ClosedRange ==
    terr # <<>> =>
        /\ -Deg(180) <= terr.angle_error /\ terr.angle_error <= Deg(180)
        /\ (terr.angle_error - (terr.reference_angle - terr.vehicle_angle)) % Deg(360) = 0

\* C18 as stated: after every kinematic update that moves the vehicle its
\* heading lies in (-180, 180]; 180 stays 180 and -180 is not produced.
C18_HalfOpenAbove ==
    [][Len(veh'.trajectory) > Len(veh.trajectory) =>
          /\ -Deg(180) < veh'.angle /\ veh'.angle <= Deg(180)
          /\ veh'.steering_angle = 0 /\ veh.angle = Deg(180) => veh'.angle = Deg(180)]_vars

\* C18: after every kinematic update that moves the vehicle its heading lies
\* in [-180, 180]; it is the heading before the normalisation up to a
\* multiple of 360, and a heading of exactly 180 (or 180 plus a multiple of
\* 360) becomes -180.
C18_HeadingRange ==
    [][Len(veh'.trajectory) > Len(veh.trajectory) =>
          /\ -Deg(180) <= veh'.angle /\ veh'.angle <= Deg(180)
          /\ veh'.steering_angle = 0 => (veh'.angle - veh.angle) % Deg(360) = 0
          /\ veh'.steering_angle = 0 /\ veh.angle % Deg(360) = Deg(180)
                 => veh'.angle = -Deg(180)]_vars

\* a vehicle built with heading 180 has driven straight on and has heading
\* -180
C18_Witness ==
    /\ Len(veh.trajectory) = 2
    /\ veh.steering_angle = 0
    /\ veh.trajectory[2][1] < veh.trajectory[1][1]
    /\ veh.trajectory[2][2] = veh.trajectory[1][2]
    /\ veh.angle = -Deg(180)


\* C22: decoding a parameter whose bit width is zero or whose range has
\* collapsed (min = max) completes without an error and returns min
C22_ZeroWidthOrCollapsed ==
    (dec # <<>> /\ (Len(dec.binary) = 0 \/ dec.min_val = dec.max_val)) =>
        /\ dec.exc = "none"
        /\ dec.value # <<>>
        /\ dec.value.num = dec.min_val * dec.value.den

\* the part of C22 that holds: with at least one bit, a collapsed range
\* decodes to min without an error
C22_CollapsedRange ==
    (dec # <<>> /\ Len(dec.binary) > 0 /\ dec.min_val = dec.max_val) =>
        /\ dec.exc = "none"
        /\ dec.value.num = dec.min_val * dec.value.den

----------------------------------------------------------------------------
(* GeneticAlgorithm._roulette_wheel_selection.  Fitness values are whole    *)
(* cost units; the constant 1e-10 is carried exactly as a count of          *)
(* epsilons, so a value is whole + eps * 1e-10 with 1e-10 below one unit    *)

RECURSIVE MinFitness(_, _)
MinFitness(fitness, n) ==
    IF n = 1 THEN fitness[1] ELSE Min2(MinFitness(fitness, n - 1), fitness[n])

\* the fitness without the added 1e-10
AdjustedFitness_NoEpsilon(fitness) ==
    [i \in DOMAIN fitness |->
        [whole |-> fitness[i] - MinFitness(fitness, Len(fitness)), eps |-> 0]]

\* adjusted_fitness = [f - min_fitness + 1e-10 for f in fitness]
AdjustedFitness(fitness) ==
    [i \in DOMAIN fitness |->
        [whole |-> fitness[i] - MinFitness(fitness, Len(fitness)), eps |-> 1]]

RECURSIVE TotalFitness(_, _)
TotalFitness(adjusted, n) ==
    IF n = 0 THEN [whole |-> 0, eps |-> 0]
    ELSE [whole |-> TotalFitness(adjusted, n - 1).whole + adjusted[n].whole,
          eps |-> TotalFitness(adjusted, n - 1).eps + adjusted[n].eps]

\* total_fitness < 1e-10
BelowEpsilon(total) == total.whole < 0 \/ (total.whole = 0 /\ total.eps < 1)

IsZero(total) == total.whole = 0 /\ total.eps = 0

\* the indices np.random.choice can return under p = f / total_fitness, and
\* the indices np.random.randint can return
Selectable(adjusted, branch) ==
    IF branch = "fallback" THEN DOMAIN adjusted
    ELSE {i \in DOMAIN adjusted : ~IsZero(adjusted[i])}

RouletteFrame(fitness, adjusted, total) ==
    [fitness |-> fitness, adjusted_fitness |-> adjusted, total_fitness |-> total,
     branch |-> IF BelowEpsilon(total) THEN "fallback" ELSE "probabilities",
     divides_by_zero |-> ~BelowEpsilon(total) /\ IsZero(total)]

RouletteWheelSelection(fitness) ==
    RouletteFrame(fitness, AdjustedFitness(fitness),
                  TotalFitness(AdjustedFitness(fitness), Len(fitness)))

----------------------------------------------------------------------------
(* SpecSel: roulette selections over populations of 1 .. MaxSel individuals *)

MaxSel == 3

FitnessValues == -3 .. 0

FitnessLists == UNION {[1 .. n -> FitnessValues] : n \in 1 .. MaxSel}

InitSel ==
    /\ sel = <<>> /\ dec = <<>> /\ refp = <<>> /\ sim = <<>> /\ codec = <<>>
    /\ IdleOpt /\ IdleSim /\ IdleVar /\ IdleFis /\ IdleHyb

roulette_wheel_selection(fitness) ==
    /\ \E frame \in {RouletteWheelSelection(fitness)} :
       \E selected_idx \in Selectable(frame.adjusted_fitness, frame.branch) :
           sel' = [frame EXCEPT !.fitness = fitness] @@
                  [selected_idx |-> selected_idx,
                   copied |-> frame.branch = "probabilities"]
    /\ UNCHANGED <<dec, refp, sim, codec, varsOpt, varsSim, varsVar, varsFis, varsHyb>>

NextSel == \E fitness \in FitnessLists : roulette_wheel_selection(fitness)

SpecSel == InitSel /\ [][NextSel]_vars

AllEqualFitness(fitness) == \A i \in DOMAIN fitness : fitness[i] = fitness[1]

----------------------------------------------------------------------------
(* SpecTrack: get_reference_point calls on one tracker, over a long         *)
(* straight path, a two-phase path whose junction pose appears twice in a   *)
(* row, a path that returns over its own points, and the empty path         *)

TrackLen == 64

StraightPath == [i \in 1 .. TrackLen |-> <<10 * (i - 1), 0, 0>>]

\* phase 1 ends at the pose phase 2 starts from (_combine_phases)
JunctionPath ==
    <<<<0, 0, 0>>, <<10, 0, 0>>, <<20, 0, 0>>, <<30, 0, 0>>,
      <<30, 0, 0>>, <<32, -8, 0>>, <<38, -16, 0>>, <<46, -22, 0>>>>

ReturningPath ==
    <<<<0, 0, 0>>, <<10, 0, 0>>, <<20, 0, 0>>, <<30, 0, 0>>,
      <<30, 0, 0>>, <<20, 0, 0>>, <<10, 0, 5>>, <<4, -6, 10>>>>

TrackPaths == {StraightPath, JunctionPath, ReturningPath, <<>>}

OffPath == {<<5, 3>>, <<305, -20>>, <<24, -4>>}

\* the vehicle is placed on the first points of a path and on every
\* seventh point after them, or beside the path
VehiclePositions(trajectory) ==
    {<<trajectory[i][1], trajectory[i][2]>> :
        i \in {j \in DOMAIN trajectory : j <= 8 \/ (j - 1) % 7 = 0}} \cup OffPath

\* the vehicle stands on a path point of index j with progress <= j < progress + 50
AtPointAhead(tr, x, y) ==
    \E i \in DOMAIN tr.trajectory :
        /\ tr.trajectory[i][1] = x /\ tr.trajectory[i][2] = y
        /\ tr.progress <= i - 1 /\ i - 1 < tr.progress + 50

InitTrack ==
    /\ trk \in {TrajectoryTracker(path) : path \in TrackPaths}
    /\ refp = <<>> /\ veh = <<>> /\ terr = <<>>
    /\ sel = <<>> /\ dec = <<>> /\ sim = <<>> /\ codec = <<>>
    /\ IdleOpt /\ IdleVar /\ IdleFis /\ IdleHyb

get_reference_point(vehicle_x, vehicle_y) ==
    /\ \E g \in {GetReferencePoint(trk, vehicle_x, vehicle_y)} :
        /\ trk' = g.tracker
        /\ refp' = [vehicle_x |-> vehicle_x, vehicle_y |-> vehicle_y,
                    progress |-> trk.progress, ret |-> g.ref,
                    at_points |-> /\ (refp # <<>> => refp.at_points)
                                  /\ AtPointAhead(trk, vehicle_x, vehicle_y)]
    /\ UNCHANGED <<veh, terr, sel, dec, sim, codec, varsOpt, varsVar, varsFis, varsHyb>>

NextTrack ==
    \E pos \in VehiclePositions(trk.trajectory) : get_reference_point(pos[1], pos[2])

SpecTrack == InitTrack /\ [][NextTrack]_vars

SquaredDistance(pose, x, y) ==
    (pose[1] - x) * (pose[1] - x) + (pose[2] - y) * (pose[2] - y)

SearchWindow(p, len) == Max2(0, p - 10) .. (Min2(len, p + 50) - 1)

\* C23: on a non-empty path of length L with progress p before the call,
\* get_reference_point sets progress to the index c of a path point closest
\* to the vehicle among max(0, p-10) .. min(L, p+50)-1, the lowest index on
\* ties, so p-10 <= c <= p+49 and 0 <= c <= L-1, and it returns the pose at
\* index min(c + max(5, lookahead_distance / 4), L-1)
C23_ReferencePoint ==
    (refp # <<>> /\ trk.trajectory # <<>>) =>
        LET c == trk.progress
            L == Len(trk.trajectory)
            dist(i) == SquaredDistance(trk.trajectory[i + 1], refp.vehicle_x, refp.vehicle_y)
        IN  /\ c \in SearchWindow(refp.progress, L)
            /\ \A i \in SearchWindow(refp.progress, L) :
                  dist(c) < dist(i) \/ (dist(c) = dist(i) /\ c <= i)
            /\ refp.progress - 10 <= c /\ c <= refp.progress + 49
            /\ 0 <= c /\ c <= L - 1
            /\ refp.ret = trk.trajectory[Min2(c + Max2(5, trk.lookahead_distance \div 4), L - 1) + 1]
            /\ trk.current_index = Min2(c + Max2(5, trk.lookahead_distance \div 4), L - 1)

\* the window is cut at both ends of a long path and the look-ahead at its end
C23_Witness ==
    /\ refp # <<>>
    /\ Len(trk.trajectory) = TrackLen
    /\ refp.progress >= 12
    /\ trk.progress = refp.progress - 10
    /\ refp.vehicle_x = 0

C23_WitnessEnd ==
    /\ refp # <<>>
    /\ Len(trk.trajectory) = TrackLen
    /\ trk.progress = refp.progress + 49
    /\ trk.current_index = TrackLen - 1

\* every repeated point of the path is repeated at consecutive indices only
ConsecutiveRepeats(trajectory) ==
    \A i, j \in DOMAIN trajectory :
        (i < j /\ trajectory[i][1] = trajectory[j][1] /\ trajectory[i][2] = trajectory[j][2]) =>
            \A m \in i .. j : trajectory[m][1] = trajectory[i][1] /\ trajectory[m][2] = trajectory[i][2]

\* C24 (as stated): over calls in which the vehicle stands each time on a
\* path point of index j with progress <= j < progress + 50, progress never
\* decreases, also on a path with repeated points
C24_ProgressNeverDecreases ==
    (refp # <<>> /\ refp.at_points) => trk.progress >= refp.progress

\* C24 (amended): the same, on paths whose repeated points stand at
\* consecutive indices (the junction pose of a two-phase path)
C24_ConsecutiveRepeats ==
    (refp # <<>> /\ refp.at_points /\ ConsecutiveRepeats(trk.trajectory)) =>
        trk.progress >= refp.progress

\* the vehicle stands on the second copy of the junction pose
C24_Witness ==
    /\ refp # <<>> /\ refp.at_points
    /\ trk.trajectory = JunctionPath
    /\ refp.vehicle_x = 30 /\ refp.vehicle_y = 0
    /\ refp.progress = 2
    /\ trk.progress = 3



----------------------------------------------------------------------------
(* ParkingSimulation (simulation.py).  Positions and sensor distances are   *)
(* whole pixels, corners are in tenths of a pixel, times in tenths of a     *)
(* second, angles and velocities in 1/OScale                                *)

\* Vehicle.__init__ with the sensor readings and parking flags
SimVehicle(x, y, angle, length, width) ==
    Vehicle(x, y, angle, length) @@
    [width |-> width, sensor_front |-> 0, sensor_lateral |-> 0, sensor_angle |-> 0,
     sensor_depth |-> 0, is_colliding |-> FALSE, is_parked |-> FALSE, parking_time |-> 0]

\* ParkingSpot.__init__
ParkingSpot(x, y, length, width) ==
    [x |-> x, y |-> y, length |-> length, width |-> width,
     x_min |-> x, x_max |-> x + length, y_min |-> y, y_max |-> y + width]

\* Vehicle.get_corners, in tenths of a pixel
GetCorners(v) ==
    {<<10 * v.x + (lc[1] * Cos1000(v.angle) - lc[2] * Sin1000(v.angle)) \div 1000,
       10 * v.y + (lc[1] * Sin1000(v.angle) + lc[2] * Cos1000(v.angle)) \div 1000>> :
        lc \in {<<0 - 5 * v.length, 0 - 5 * v.width>>, <<5 * v.length, 0 - 5 * v.width>>,
                <<5 * v.length, 5 * v.width>>, <<0 - 5 * v.length, 5 * v.width>>}}

\* Vehicle.get_front_center: the x coordinate
FrontCenterX(v) == v.x + (v.length * Cos1000(v.angle)) \div 2000

\* ParkingSpot.is_inside
IsInside(spot, points, margin) ==
    \A pt \in points :
        /\ 10 * (spot.x_min - margin) <= pt[1] /\ pt[1] <= 10 * (spot.x_max + margin)
        /\ 10 * (spot.y_min - margin) <= pt[2] /\ pt[2] <= 10 * (spot.y_max + margin)

\* Obstacle.check_collision for the obstacle <<x, y, width, height>>
ObstacleCollision(obstacle, points) ==
    \E pt \in points :
        /\ 10 * obstacle[1] <= pt[1] /\ pt[1] <= 10 * (obstacle[1] + obstacle[3])
        /\ 10 * obstacle[2] <= pt[2] /\ pt[2] <= 10 * (obstacle[2] + obstacle[4])

\* Vehicle.update_sensors
UpdateSensors(v, spot, obstacles) ==
    [v EXCEPT !.sensor_front = Abs(spot.x - FrontCenterX(v)),
              !.sensor_lateral = v.y - (spot.y + spot.width \div 2),
              !.sensor_angle = v.angle,
              !.sensor_depth = IF v.x >= spot.x THEN Min2(v.x - spot.x, 150) ELSE 0,
              !.is_colliding = \E o \in obstacles : ObstacleCollision(o, GetCorners(v))]

\* check_parked, lines 131-143: the five parking conditions
ParkingConditions(v, spot) ==
    /\ IsInside(spot, GetCorners(v), 5)
    /\ Abs(v.sensor_angle) < Deg(5)
    /\ Abs(v.sensor_lateral) < 10
    /\ 10 < v.sensor_front /\ v.sensor_front < 100
    /\ Abs(v.velocity) < Deg(10)

\* check_parked that keeps the accumulated time when a condition fails
CheckParked_KeepsTime(v, held, dt) ==
    IF held
    THEN [vehicle |-> [v EXCEPT !.parking_time = @ + dt,
                                !.is_parked = @ \/ v.parking_time + dt > 10],
          ret |-> v.parking_time + dt > 10]
    ELSE [vehicle |-> v, ret |-> FALSE]

\* Vehicle.check_parked, lines 144-153, held telling whether the conditions
\* hold; dt in tenths of a second
CheckParked(v, held, dt) ==
    IF held
    THEN [vehicle |-> [v EXCEPT !.parking_time = @ + dt,
                                !.is_parked = @ \/ v.parking_time + dt > 10],
          ret |-> v.parking_time + dt > 10]
    ELSE [vehicle |-> [v EXCEPT !.parking_time = 0], ret |-> FALSE]

\* update, lines 259-266: the command inside the bay
ZoneOverride(sensor_depth, fuzzy_outputs) ==
    IF 60 <= sensor_depth /\ sensor_depth <= 90
    THEN IF Abs(sensor_depth - 75) <= 10
         THEN [velocidade |-> 0, angulo_direcao |-> 0]
         ELSE [fuzzy_outputs EXCEPT !.velocidade = Min2(@, Deg(5))]
    ELSE fuzzy_outputs

\* update, lines 248-277, for a vehicle neither parked nor colliding
Controlled(s, v, outputs, dtden) ==
    [s EXCEPT !.vehicle = UpdateKinematics([v EXCEPT !.steering_angle = outputs.angulo_direcao,
                                                     !.velocity = outputs.velocidade],
                                           dtden),
              !.control_updates = @ + 1,
              !.ret = ~(s.time_elapsed > 300),
              !.reported = "none"]

\* update, lines 242-246 and on, after check_parked returned cp
AfterCheck(s, cp, dtden) ==
    IF cp.ret
    THEN [s EXCEPT !.vehicle = cp.vehicle, !.ret = FALSE, !.reported = "parked"]
    ELSE IF cp.vehicle.is_colliding
    THEN [s EXCEPT !.vehicle = [cp.vehicle EXCEPT !.velocity = 0],
                   !.ret = FALSE, !.reported = "colliding"]
    ELSE Controlled(s, cp.vehicle,
                    ZoneOverride(cp.vehicle.sensor_depth,
                                 InferOutputs(create_centered_parking_system,
                                              FuzzyInputs(cp.vehicle))),
                    dtden)

\* update, lines 238-242, for the vehicle v with its sensors updated
Sensed(s, v, dtden) ==
    AfterCheck([s EXCEPT !.time_elapsed = @ + 10 \div dtden,
                         !.held = ParkingConditions(v, s.parking_spot),
                         !.calls = @ + 1],
               CheckParked(v, ParkingConditions(v, s.parking_spot), 10 \div dtden),
               dtden)

\* ParkingSimulation.update(dt) for dt = 1 / dtden
Update(s, dtden) ==
    Sensed(s, UpdateSensors(s.vehicle, s.parking_spot, s.obstacles), dtden)

\* ParkingSimulation.__init__ and reset_vehicle; ret, reported and held are
\* the return value and branch of the last update, calls the number of
\* updates
ParkingSimulation(x, y, angle) ==
    [parking_spot |-> ParkingSpot(600, 250, 150, 80),
     obstacles |-> {<<600, 170, 150, 10>>, <<600, 410, 150, 10>>, <<750, 170, 10, 250>>},
     vehicle |-> SimVehicle(x, y, angle, 50, 25),
     time_elapsed |-> 0, control_updates |-> 0,
     ret |-> TRUE, reported |-> "none", held |-> FALSE, calls |-> 0]

----------------------------------------------------------------------------
(* SpecPark: updates of one simulation, from the pose of reset_vehicle and  *)
(* from poses of a vehicle that has driven to the bay                       *)

\* number of updates in a behaviour
MaxSimUpdates == 3

\* dt = 0.1 (line 310), 0.5 and 1.0
DtDens == {10, 2, 1}

SimPoses ==
    {<<250, 350, 0 - Deg(15)>>, <<655, 290, 0>>, <<664, 290, 0>>, <<670, 290, 0>>,
     <<670, 292, Deg(8)>>, <<730, 290, 0>>, <<640, 310, Deg(3)>>}

InitPark ==
    /\ sim \in {ParkingSimulation(pose[1], pose[2], pose[3]) : pose \in SimPoses}
    /\ sel = <<>> /\ dec = <<>> /\ refp = <<>> /\ codec = <<>>
    /\ IdleOpt /\ IdleSim /\ IdleVar /\ IdleFis /\ IdleHyb

update(dtden) ==
    /\ sim.calls < MaxSimUpdates
    /\ sim' = Update(sim, dtden)
    /\ UNCHANGED <<sel, dec, refp, codec, varsOpt, varsSim, varsVar, varsFis, varsHyb>>

NextPark == \E dtden \in DtDens : update(dtden)

SpecPark == InitPark /\ [][NextPark]_vars

\* the update left pose, steering and recorded path as they were
Unmoved ==
    /\ sim'.vehicle.x = sim.vehicle.x /\ sim'.vehicle.y = sim.vehicle.y
    /\ sim'.vehicle.angle = sim.vehicle.angle
    /\ sim'.vehicle.steering_angle = sim.vehicle.steering_angle
    /\ sim'.vehicle.trajectory = sim.vehicle.trajectory
    /\ sim'.control_updates = sim.control_updates

\* C30: is_parked becomes true only on an update on which the parking
\* conditions hold and the time accumulated over the consecutive updates on
\* which they held exceeds 1.0; an update on which a condition fails sets
\* the accumulated time to 0; an update that reports parked or colliding
\* returns False without a new control command and without moving the
\* vehicle
C30_ParkedAfterHold ==
    [][sim'.calls = sim.calls + 1 =>
        /\ sim'.vehicle.parking_time =
              IF sim'.held THEN sim.vehicle.parking_time + (sim'.time_elapsed - sim.time_elapsed)
              ELSE 0
        /\ (sim'.vehicle.is_parked /\ ~sim.vehicle.is_parked) =>
              sim'.held /\ sim'.vehicle.parking_time > 10 /\ sim'.reported = "parked"
        /\ sim'.reported = "parked" => sim'.vehicle.is_parked
        /\ sim'.reported = "colliding" => sim'.vehicle.is_colliding
        /\ sim'.reported \in {"parked", "colliding"} => (~sim'.ret /\ Unmoved)
        /\ sim'.reported = "parked" => sim'.vehicle.velocity = sim.vehicle.velocity]_vars

\* the vehicle was reported parked on a third update, after two on which
\* the conditions held without the time exceeding 1.0
C30_Witness ==
    /\ sim # <<>>
    /\ sim.vehicle.is_parked /\ sim.reported = "parked"
    /\ sim.calls = 3
    /\ sim.vehicle.parking_time > 10
    /\ sim.time_elapsed = sim.vehicle.parking_time

\* the accumulated time set back to 0 by a failing condition after an update
\* on which the conditions held
C30_WitnessReset ==
    /\ sim # <<>>
    /\ sim.calls >= 2 /\ ~sim.held
    /\ sim.vehicle.parking_time = 0
    /\ sim.control_updates = sim.calls
    /\ sim.vehicle.sensor_depth >= 60

\* an update that reported a collision
C30_WitnessColliding ==
    /\ sim # <<>>
    /\ sim.reported = "colliding" /\ ~sim.ret
    /\ sim.calls >= 2


====
